---------------------------- MODULE Spec2Model ----------------------------
(***************************************************************************)
(* Wispr: server-authoritative snapshot + versioned-patch replication.     *)
(*                                                                         *)
(* The model follows the TypeScript sources:                               *)
(*   WisprPath.ts    path addressing (isValidPath, get/set/deleteValueAt)  *)
(*   WisprPatch      applyPatchOperation / applyPatch                      *)
(*   WisprNode.ts    the observer (client) node                            *)
(*   WisprServer     WisprServerNode and WisprServerRegistry               *)
(*   WisprClient     WisprClientRegistry                                   *)
(*   WisprRateLimiter                                                      *)
(*                                                                         *)
(* Encoding of values.  A state tree value is a tagged record:             *)
(*   Nil            undefined / nil                                        *)
(*   Num(n)         a number                                               *)
(*   Str(s)         a string                                               *)
(*   Tbl(f)         a table; f maps keys to non-Nil values                 *)
(* Path keys are modelled by strings.  The keys in NumberKeys stand for    *)
(* the numbers -1, 0, 1, ... (typeOf(key) = "number"), NonKey stands for a *)
(* key that is neither a string nor a number, every other key is a string. *)
(* An array is a table whose keys are "0" .. "n-1".                        *)
(***************************************************************************)
EXTENDS Integers, Sequences, FiniteSets, TLC

Nil == [t |-> "nil"]
Num(n) == [t |-> "num", n |-> n]
Str(s) == [t |-> "str", s |-> s]
Tbl(f) == [t |-> "tbl", f |-> f]
EmptyTable == [k \in {} |-> Nil]

\* typeOf(v) === "table"
IsTable(v) == v.t = "tbl"
\* typeOf(v) === "number"
IsNumber(v) == v.t = "num"

\* obj[key]
Lookup(f, k) == IF k \in DOMAIN f THEN f[k] ELSE Nil
\* obj[key] = value   (assigning undefined removes the key);  delete obj[key]
Put(f, k, v) ==
  IF v = Nil
    THEN [x \in (DOMAIN f) \ {k} |-> f[x]]
    ELSE [x \in (DOMAIN f) \cup {k} |-> IF x = k THEN v ELSE f[x]]

(***************************************************************************)
(* Keys                                                                    *)
(***************************************************************************)
IndexKeys == <<"0", "1", "2", "3", "4", "5", "6", "7">>
NegKey == "-1"
NonKey == "<boolean>"
NumberKeys == {IndexKeys[i] : i \in 1..Len(IndexKeys)} \cup {NegKey}
KeyOfIndex(i) == IndexKeys[i + 1]
KeyType(k) ==
  IF k \in NumberKeys THEN "number"
  ELSE IF k = NonKey THEN "boolean"
  ELSE "string"

(***************************************************************************)
(* WisprPath.ts                                                            *)
(***************************************************************************)
\* isValidPath: a non-empty array whose keys are all strings or numbers.
\* (No check of the sign of a numeric key: that is only in pathOf.)
isValidPath(path) ==
  /\ Len(path) # 0
  /\ \A i \in 1..Len(path) : KeyType(path[i]) \in {"string", "number"}

\* The loop of getValueAtPath from position i on.
RECURSIVE GetWalk(_, _, _)
GetWalk(current, path, i) ==
  IF i > Len(path) THEN current
  ELSE IF ~IsTable(current) THEN Nil
  ELSE LET next == Lookup(current.f, path[i])
       IN  IF next = Nil THEN Nil ELSE GetWalk(next, path, i + 1)

\* getValueAtPath(obj, path) for a valid path (every caller in the model
\* checks isValidPath first, as applyPatchOperation and WisprNode do).
getValueAtPath(obj, path) ==
  IF obj = Nil THEN Nil ELSE GetWalk(obj, path, 1)

\* The loop of setValueAtPath from position i on; f is the table `current`.
\* A missing or non-table intermediate is replaced by a fresh empty table
\* ([] and {} are the same empty Lua table).
RECURSIVE SetWalk(_, _, _, _)
SetWalk(f, path, i, value) ==
  IF i = Len(path) THEN Put(f, path[i], value)
  ELSE LET key == path[i]
           old == Lookup(f, key)
           child == IF old = Nil \/ ~IsTable(old) THEN EmptyTable ELSE old.f
       IN  Put(f, key, Tbl(SetWalk(child, path, i + 1, value)))

\* A set that gives up, as the delete does, when an intermediate is missing
\* or not a table.
setValueAtPathNoCreate(obj, path, value) ==
  IF Len(path) > 1 /\ ~IsTable(getValueAtPath(obj, SubSeq(path, 1, Len(path) - 1)))
    THEN obj
    ELSE Tbl(SetWalk(obj.f, path, 1, value))

\* setValueAtPath(obj, path, value): the new obj.  obj is a table and the
\* path valid (checked by the callers before the call).
setValueAtPath(obj, path, value) == Tbl(SetWalk(obj.f, path, 1, value))

\* The loop of deleteValueAtPath: returns early, changing nothing, when an
\* intermediate is missing or not a table.
RECURSIVE DeleteWalk(_, _, _)
DeleteWalk(f, path, i) ==
  IF i = Len(path) THEN Put(f, path[i], Nil)
  ELSE LET next == Lookup(f, path[i])
       IN  IF next = Nil \/ ~IsTable(next) THEN f
           ELSE Put(f, path[i], Tbl(DeleteWalk(next.f, path, i + 1)))

deleteValueAtPath(obj, path) ==
  IF ~IsTable(obj) THEN obj ELSE Tbl(DeleteWalk(obj.f, path, 1))

(***************************************************************************)
(* Arrays (roblox-ts Array methods on a table): size, push, insert, remove *)
(***************************************************************************)
MaxIndex == Len(IndexKeys) - 1
size(f) ==
  CHOOSE n \in 0..(MaxIndex + 1) :
    /\ \A i \in 0..(n - 1) : KeyOfIndex(i) \in DOMAIN f
    /\ (n = MaxIndex + 1 \/ KeyOfIndex(n) \notin DOMAIN f)

\* arr.push(value)
ArrPush(f, value) == Put(f, KeyOfIndex(size(f)), value)

\* arr.insert(index, value) that overwrites the element at index.
ArrInsertOverwrite(f, index, value) == Put(f, KeyOfIndex(index), value)

\* arr.insert(index, value): elements index..n-1 move one place right when
\* index is within the array; beyond the end the value is stored at index.
ArrInsert(f, index, value) ==
  LET n == size(f)
  IN  IF index < n
        THEN [x \in (DOMAIN f) \cup {KeyOfIndex(n)} |->
                IF x \notin {KeyOfIndex(i) : i \in index..n} THEN f[x]
                ELSE IF x = KeyOfIndex(index) THEN value
                ELSE f[KeyOfIndex((CHOOSE i \in index..n : KeyOfIndex(i) = x) - 1)]]
        ELSE Put(f, KeyOfIndex(index), value)

\* arr.remove(index): elements after index move one place left; an index
\* outside the array removes nothing.
ArrRemove(f, index) ==
  LET n == size(f)
  IN  IF index >= n THEN f
      ELSE [x \in (DOMAIN f) \ {KeyOfIndex(n - 1)} |->
              IF x \notin {KeyOfIndex(i) : i \in index..(n - 1)} THEN f[x]
              ELSE f[KeyOfIndex((CHOOSE i \in index..(n - 1) : KeyOfIndex(i) = x) + 1)]]

(***************************************************************************)
(* Patch operations (WisprTypes.WisprPatchOp).  reliability is "none" when *)
(* the optional field is absent.                                           *)
(***************************************************************************)
opSet(path, value, rel) == [type |-> "set", path |-> path, value |-> value, reliability |-> rel]
opDelete(path, rel) == [type |-> "delete", path |-> path, reliability |-> rel]
opIncrement(path, delta, rel) == [type |-> "increment", path |-> path, delta |-> delta, reliability |-> rel]
opListPush(path, value, rel) == [type |-> "listPush", path |-> path, value |-> value, reliability |-> rel]
opListInsert(path, index, value, rel) ==
  [type |-> "listInsert", path |-> path, index |-> index, value |-> value, reliability |-> rel]
opListRemoveAt(path, index, rel) == [type |-> "listRemoveAt", path |-> path, index |-> index, reliability |-> rel]
opMapSet(pathToMap, id, value, rel) ==
  [type |-> "mapSet", pathToMap |-> pathToMap, id |-> id, value |-> value, reliability |-> rel]
opMapDelete(pathToMap, id, rel) == [type |-> "mapDelete", pathToMap |-> pathToMap, id |-> id, reliability |-> rel]

OpTypes == {"set", "delete", "increment", "listPush", "listInsert", "listRemoveAt", "mapSet", "mapDelete"}

\* Result of a call that may raise: the (possibly mutated) state and whether
\* an error was raised.
Done(state) == [err |-> FALSE, state |-> state]
Raised(state) == [err |-> TRUE, state |-> state]

\* A mapSet that puts the entry in a new map.
mapSetIntoFresh(mapValue, operation) ==
  Tbl(Put(EmptyTable, operation.id, operation.value))

\* map[operation.id] = operation.value
mapSetInto(mapValue, operation) == Tbl(Put(mapValue.f, operation.id, operation.value))

\* A wrong-shape target that raises instead of being skipped.
SkippedRaises(state) == Raised(state)

\* The else branches that only warn: the operation is skipped.
Skipped(state) == Done(state)

\* applyPatchOperation(state, operation).  Every validation error is raised
\* before the state is touched; a target of the wrong shape is skipped with
\* a warning.
applyPatchOperation(state, operation) ==
  IF ~IsTable(state) THEN Raised(state)
  ELSE IF operation.type \notin OpTypes THEN Raised(state)
  ELSE IF operation.type = "set" THEN
    IF ~isValidPath(operation.path) THEN Raised(state)
    ELSE Done(setValueAtPath(state, operation.path, operation.value))
  ELSE IF operation.type = "delete" THEN
    IF ~isValidPath(operation.path) THEN Raised(state)
    ELSE Done(deleteValueAtPath(state, operation.path))
  ELSE IF operation.type = "increment" THEN
    IF ~isValidPath(operation.path) THEN Raised(state)
    ELSE IF ~IsNumber(operation.delta) THEN Raised(state)
    ELSE LET currentValue == getValueAtPath(state, operation.path)
         IN  IF IsNumber(currentValue)
               THEN Done(setValueAtPath(state, operation.path, Num(currentValue.n + operation.delta.n)))
               ELSE Skipped(state)
  ELSE IF operation.type = "listPush" THEN
    IF ~isValidPath(operation.path) THEN Raised(state)
    ELSE LET currentValue == getValueAtPath(state, operation.path)
         IN  IF IsTable(currentValue)
               THEN Done(setValueAtPath(state, operation.path, Tbl(ArrPush(currentValue.f, operation.value))))
               ELSE Skipped(state)
  ELSE IF operation.type = "listInsert" THEN
    IF ~isValidPath(operation.path) THEN Raised(state)
    ELSE IF operation.index < 0 THEN Raised(state)
    ELSE LET currentValue == getValueAtPath(state, operation.path)
         IN  IF IsTable(currentValue)
               THEN Done(setValueAtPath(state, operation.path,
                                        Tbl(ArrInsert(currentValue.f, operation.index, operation.value))))
               ELSE Skipped(state)
  ELSE IF operation.type = "listRemoveAt" THEN
    IF ~isValidPath(operation.path) THEN Raised(state)
    ELSE IF operation.index < 0 THEN Raised(state)
    ELSE LET currentValue == getValueAtPath(state, operation.path)
         IN  IF IsTable(currentValue)
               THEN Done(setValueAtPath(state, operation.path, Tbl(ArrRemove(currentValue.f, operation.index))))
               ELSE Skipped(state)
  ELSE IF operation.type = "mapSet" THEN
    IF ~isValidPath(operation.pathToMap) THEN Raised(state)
    ELSE IF KeyType(operation.id) # "string" THEN Raised(state)
    ELSE LET mapValue == getValueAtPath(state, operation.pathToMap)
         IN  IF IsTable(mapValue)
               THEN Done(setValueAtPath(state, operation.pathToMap, mapSetInto(mapValue, operation)))
               ELSE Skipped(state)
  ELSE \* mapDelete
    IF ~isValidPath(operation.pathToMap) THEN Raised(state)
    ELSE IF KeyType(operation.id) # "string" THEN Raised(state)
    ELSE LET mapValue == getValueAtPath(state, operation.pathToMap)
         IN  IF IsTable(mapValue)
               THEN Done(setValueAtPath(state, operation.pathToMap, Tbl(Put(mapValue.f, operation.id, Nil))))
               ELSE Skipped(state)

\* The loop of applyPatch from operation i on: an operation that raises
\* ends the loop; the operations before it have already mutated the state.
RECURSIVE ApplyFrom(_, _, _)
ApplyFrom(state, operations, i) ==
  IF i > Len(operations) THEN Done(state)
  ELSE LET r == applyPatchOperation(state, operations[i])
       IN  IF r.err THEN Raised(r.state) ELSE ApplyFrom(r.state, operations, i + 1)

\* applyPatch(state, patch)
applyPatch(state, patch) ==
  IF ~IsTable(state) THEN Raised(state)
  ELSE IF patch.version < 0 THEN Raised(state)
  ELSE ApplyFrom(state, patch.operations, 1)

(***************************************************************************)
(* HttpService JSONDecode(JSONEncode(v)): the deep copy used by            *)
(* createSnapshot, WisprNode.getState and WisprNode.applyPatch.  A table   *)
(* with a non-empty array part is encoded as a JSON array, which keeps the *)
(* array part only; any other table is encoded as an object.               *)
(***************************************************************************)
RECURSIVE JsonCopy(_)
JsonCopy(v) ==
  IF ~IsTable(v) THEN v
  ELSE LET n == size(v.f)
           keep == IF n > 0 THEN {KeyOfIndex(i) : i \in 0..(n - 1)} ELSE DOMAIN v.f
       IN  Tbl([k \in keep |-> JsonCopy(v.f[k])])

(***************************************************************************)
(* WisprNode.ts: the observer node                                         *)
(*   tokenId, state, version                                               *)
(*   changeSignals  the path keys that have a change signal                *)
(*   anyListener / rawListener  whether a listener is connected            *)
(***************************************************************************)
NoNode == [t |-> "none"]

\* tostring(key) joined by ".": a key that itself contains a dot yields the
\* same string as the path of its parts.
SplitKey(k) == IF k = "p.k" THEN <<"p", "k">> ELSE <<k>>
RECURSIVE pathToKey(_)
pathToKey(path) ==
  IF Len(path) = 0 THEN <<>> ELSE SplitKey(Head(path)) \o pathToKey(Tail(path))

\* new WisprNode(token, snapshot)
NewWisprNode(tokenId, snapshot) ==
  [t |-> "node", tokenId |-> tokenId, state |-> snapshot.data, version |-> snapshot.version,
   changeSignals |-> {}, anyListener |-> FALSE, rawListener |-> FALSE]

\* The constructor's checks.
WisprNodeCtorRaises(tokenId, snapshot) ==
  snapshot.version < 0 \/ snapshot.tokenId # tokenId

\* What one call fired: the raw-patch signal, the any-change signal (counts
\* of fire() calls that reach a listener) and the path signals in order.
NoFired == [raw |-> 0, any |-> 0, paths |-> <<>>]

\* newValue !== oldValue: oldValue is read from a decoded copy, so two
\* tables are never the same reference.
Differs(newValue, oldValue) ==
  IF IsTable(newValue) /\ IsTable(oldValue) THEN TRUE ELSE newValue # oldValue

\* The path an operation touches (map operations: pathToMap + id).
TouchedPath(operation) ==
  IF operation.type \in {"mapSet", "mapDelete"}
    THEN Append(operation.pathToMap, operation.id)
    ELSE operation.path

\* The loop firing the change signals of applyPatch, from operation i on.
RECURSIVE FireChanges(_, _, _, _, _)
FireChanges(node, oldState, newState, operations, i) ==
  IF i > Len(operations) THEN <<>>
  ELSE LET path == TouchedPath(operations[i])
           newValue == getValueAtPath(newState, path)
           oldValue == getValueAtPath(oldState, path)
           here == IF /\ isValidPath(path)
                      /\ pathToKey(path) \in node.changeSignals
                      /\ Differs(newValue, oldValue)
                     THEN <<[path |-> path, new |-> newValue, old |-> oldValue]>>
                     ELSE <<>>
       IN  here \o FireChanges(node, oldState, newState, operations, i + 1)

\* A gate that lets a patch of the node's own version through.
VersionGateStrict(patchVersion, version) == patchVersion < version

\* if (patch.version <= this.version) return false
IsStale(patchVersion, version) == patchVersion <= version

\* An any-change signal fired inside the loop over the operations.
AnyChangeFiredPerOperation(node, operations) ==
  IF node.anyListener THEN Len(operations) ELSE 0

\* this.anyChangeSignal.fire() after the loop over the operations: the
\* number of times the listener is called.
AnyChangeFired(node, operations) == IF node.anyListener THEN 1 ELSE 0

\* WisprNode.applyPatch(patch): the node after the call, the result
\* ("rejected" = returned false, "applied" = returned true, "raised") and
\* what was fired.
WisprNodeApplyPatch(node, patch) ==
  IF patch.tokenId # node.tokenId
    THEN [node |-> node, result |-> "raised", fired |-> NoFired]
  ELSE IF IsStale(patch.version, node.version)
    THEN [node |-> node, result |-> "rejected", fired |-> NoFired]
  ELSE
    LET raw == IF node.rawListener THEN 1 ELSE 0
        oldState == JsonCopy(node.state)
        r == applyPatch(node.state, patch)
    IN  IF r.err
          THEN [node |-> [node EXCEPT !.state = r.state], result |-> "raised",
                fired |-> [raw |-> raw, any |-> 0, paths |-> <<>>]]
          ELSE [node |-> [node EXCEPT !.state = r.state, !.version = patch.version],
                result |-> "applied",
                fired |-> [raw |-> raw,
                           any |-> AnyChangeFired(node, patch.operations),
                           paths |-> FireChanges(node, oldState, r.state, patch.operations, 1)]]

\* applySnapshot behind the version gate of applyPatch.
WisprNodeApplySnapshotGated(node, snapshot) ==
  IF snapshot.tokenId # node.tokenId \/ snapshot.version < 0
    THEN [node |-> node, result |-> "raised", fired |-> NoFired]
  ELSE IF snapshot.version < node.version
    THEN [node |-> node, result |-> "rejected", fired |-> NoFired]
  ELSE [node |-> [node EXCEPT !.state = snapshot.data, !.version = snapshot.version],
        result |-> "applied",
        fired |-> [raw |-> 0,
                   any |-> IF node.anyListener THEN 1 ELSE 0,
                   paths |-> [i \in 1..Cardinality(node.changeSignals) |->
                                [path |-> <<>>, new |-> Nil, old |-> Nil]]]]

\* applySnapshot that replaces the state but keeps the node's version.
WisprNodeApplySnapshotKeepVersion(node, snapshot) ==
  IF snapshot.tokenId # node.tokenId \/ snapshot.version < 0
    THEN [node |-> node, result |-> "raised", fired |-> NoFired]
    ELSE [node |-> [node EXCEPT !.state = snapshot.data],
          result |-> "applied",
          fired |-> [raw |-> 0, any |-> IF node.anyListener THEN 1 ELSE 0, paths |-> <<>>]]

\* WisprNode.applySnapshot(snapshot): state and version are replaced; every
\* change signal fires with (undefined, undefined), then the any signal.
WisprNodeApplySnapshot(node, snapshot) ==
  IF snapshot.tokenId # node.tokenId \/ snapshot.version < 0
    THEN [node |-> node, result |-> "raised", fired |-> NoFired]
    ELSE [node |-> [node EXCEPT !.state = snapshot.data, !.version = snapshot.version],
          result |-> "applied",
          fired |-> [raw |-> 0,
                     any |-> IF node.anyListener THEN 1 ELSE 0,
                     paths |-> [i \in 1..Cardinality(node.changeSignals) |->
                                  [path |-> <<>>, new |-> Nil, old |-> Nil]]]]

\* listenForChange / listenForAnyChange / listenForRawPatch
WisprNodeListenForChange(node, path) ==
  [node EXCEPT !.changeSignals = @ \cup {pathToKey(path)}]
WisprNodeListenForAnyChange(node) == [node EXCEPT !.anyListener = TRUE]
WisprNodeListenForRawPatch(node) == [node EXCEPT !.rawListener = TRUE]

\* A destroy that clears the raw-patch and any-change signals only.
WisprNodeDestroyKeepsPaths(node) ==
  [node EXCEPT !.anyListener = FALSE, !.rawListener = FALSE]

\* WisprNode.destroy(): the maid runs the disconnect function of every
\* subscription made (a task that raises is caught) and forgets them, then
\* the map of path signals is cleared and the two other signals lose their
\* listeners.  Nothing in it raises, and state and version are not touched.
WisprNodeDestroy(node) ==
  [node EXCEPT !.changeSignals = {}, !.anyListener = FALSE, !.rawListener = FALSE]

(***************************************************************************)
(* WisprServer: WisprServerNode                                            *)
(*   scope: [kind |-> "all"], [kind |-> "player", player |-> p] or         *)
(*          [kind |-> "players", players |-> <<p, ...>>] (an array)        *)
(***************************************************************************)
ScopeAll == [kind |-> "all"]
ScopePlayer(p) == [kind |-> "player", player |-> p]
ScopePlayers(ps) == [kind |-> "players", players |-> ps]

\* The constructor's checks: the scope kind and the initial state.
WisprServerNodeCtorRaises(scope, initialState) ==
  \/ scope.kind \notin {"all", "player", "players"}
  \/ initialState = Nil

NewWisprServerNode(tokenId, scope, initialState) ==
  [t |-> "snode", tokenId |-> tokenId, scope |-> scope, state |-> initialState, version |-> 0]

\* An applyOperation that applies the operation and leaves the version.
ApplyOperationNoBump(node, operation) ==
  LET r == applyPatchOperation(node.state, operation)
  IN  IF r.err THEN [err |-> TRUE, node |-> node]
      ELSE [err |-> FALSE, node |-> [node EXCEPT !.state = r.state]]

\* WisprServerNode.applyOperation: apply, then version++.  A raising
\* operation leaves state and version as they were.
ServerApplyOperationCountsChanges(node, operation) ==
  LET r == applyPatchOperation(node.state, operation)
  IN  IF r.err THEN [err |-> TRUE, node |-> node]
      ELSE IF r.state = node.state THEN [err |-> FALSE, node |-> node]
      ELSE [err |-> FALSE, node |-> [node EXCEPT !.state = r.state, !.version = @ + 1]]

ServerApplyOperation(node, operation) ==
  LET r == applyPatchOperation(node.state, operation)
  IN  IF r.err THEN [err |-> TRUE, node |-> node]
      ELSE [err |-> FALSE, node |-> [node EXCEPT !.state = r.state, !.version = @ + 1]]

\* WisprServerNode.createSnapshot
createSnapshot(node) ==
  [tokenId |-> node.tokenId, version |-> node.version, data |-> JsonCopy(node.state)]

\* WisprServerNode.shouldReplicateTo
shouldReplicateTo(node, player) ==
  IF node.scope.kind = "all" THEN TRUE
  ELSE IF node.scope.kind = "player" THEN node.scope.player = player
  ELSE IF node.scope.kind = "players"
    THEN \E i \in 1..Len(node.scope.players) : node.scope.players[i] = player
  ELSE FALSE

(***************************************************************************)
(* WisprServer: the messages and the three broadcasts.  A broadcast is the *)
(* sequence of sends it makes: [to, channel, message].  FireAllClients is  *)
(* one send to every identity connected at the time of the call.           *)
(***************************************************************************)
PlayerOrder == <<"A", "B">>
Players == {PlayerOrder[i] : i \in 1..Len(PlayerOrder)}

CreateMessage(node) == [tokenId |-> node.tokenId, snapshot |-> createSnapshot(node)]
StateUpdateMessage(patch) == [tokenId |-> patch.tokenId, patch |-> patch]
DestroyMessage(tokenId) == [tokenId |-> tokenId]

FireAllClients(conn) == SelectSeq(PlayerOrder, LAMBDA p : p \in conn)

\* A broadcast that ignores the scope.
ScopeTargetsEveryone(scope, conn) == FireAllClients(conn)

\* The recipients a scope selects, in sending order.
ScopeTargets(scope, conn) ==
  IF scope.kind = "all" THEN FireAllClients(conn)
  ELSE IF scope.kind = "player" THEN <<scope.player>>
  ELSE IF scope.kind = "players" THEN scope.players
  ELSE <<>>

Sends(targets, channel, message) ==
  [i \in 1..Len(targets) |-> [to |-> targets[i], channel |-> channel, message |-> message]]

broadcastCreate(node, conn) ==
  Sends(ScopeTargets(node.scope, conn), "reliable", CreateMessage(node))

\* A channel chosen by the reliability field of the last operation.
PatchChannelOfLast(patch) ==
  IF patch.operations[Len(patch.operations)].reliability \in {"none", "reliable"}
    THEN "reliable" ELSE "unreliable"

\* The channel is chosen by the reliability field of the first operation.
PatchChannel(patch) ==
  LET reliability == IF patch.operations[1].reliability = "none"
                       THEN "reliable" ELSE patch.operations[1].reliability
  IN  IF reliability = "reliable" THEN "reliable" ELSE "unreliable"

broadcastPatch(node, patch, conn) ==
  Sends(ScopeTargets(node.scope, conn), PatchChannel(patch), StateUpdateMessage(patch))

broadcastDestroy(tokenId, scope, conn) ==
  Sends(ScopeTargets(scope, conn), "reliable", DestroyMessage(tokenId))

(***************************************************************************)
(* WisprRateLimiter                                                        *)
(***************************************************************************)
maxRequests == 5
windowSeconds == 10

\* A limiter that records the denied requests too.
canRequestRecordsDenied(times, now) ==
  LET windowStart == now - windowSeconds
      recentTimes == SelectSeq(times, LAMBDA time : time > windowStart)
  IN  [allowed |-> Len(recentTimes) < maxRequests, times |-> Append(recentTimes, now)]

\* A limiter that never forgets a request.
canRequestNoExpiry(times, now) ==
  IF Len(times) >= maxRequests
    THEN [allowed |-> FALSE, times |-> times]
    ELSE [allowed |-> TRUE, times |-> Append(times, now)]

\* canRequest(identifier) at time now, times = requestTimes.get(identifier)
canRequest(times, now) ==
  LET windowStart == now - windowSeconds
      recentTimes == SelectSeq(times, LAMBDA time : time > windowStart)
  IN  IF Len(recentTimes) >= maxRequests
        THEN [allowed |-> FALSE, times |-> times]
        ELSE [allowed |-> TRUE, times |-> Append(recentTimes, now)]

\* A collection that does not ask shouldReplicateTo.
RECURSIVE InitialDataUnscoped(_, _, _)
InitialDataUnscoped(nodes, ids, player) ==
  IF ids = <<>> THEN <<>>
  ELSE LET node == nodes[Head(ids)]
           here == IF node.t = "snode" THEN <<CreateMessage(node)>> ELSE <<>>
       IN  here \o InitialDataUnscoped(nodes, Tail(ids), player)

\* handleInitialDataRequest once admitted: one create message per node the
\* player should see; ids is the iteration order of the node map.
RECURSIVE InitialData(_, _, _)
InitialData(nodes, ids, player) ==
  IF ids = <<>> THEN <<>>
  ELSE LET node == nodes[Head(ids)]
           here == IF node.t = "snode" /\ shouldReplicateTo(node, player)
                     THEN <<CreateMessage(node)>> ELSE <<>>
       IN  here \o InitialData(nodes, Tail(ids), player)

(***************************************************************************)
(* WisprClient: handleMessage's dispatch on the fields of the message      *)
(***************************************************************************)
Has(message, field) == field \in DOMAIN message

Dispatch(message) ==
  IF Has(message, "snapshot") THEN "create"
  ELSE IF Has(message, "tokenId") /\ Has(message, "version") /\ Has(message, "operations") THEN "patch"
  ELSE IF Has(message, "tokenId") /\ ~Has(message, "version") THEN "destroy"
  ELSE "unknown"

\* A handleCreate that puts a new node in the place of the one it has.
handleCreateReplacing(existing, snapshot) ==
  IF WisprNodeCtorRaises(existing.tokenId, snapshot) THEN existing
  ELSE NewWisprNode(existing.tokenId, snapshot)

\* handleCreate for an id that has a node: existing.applySnapshot in a try.
handleCreateExisting(existing, snapshot) == WisprNodeApplySnapshot(existing, snapshot).node

\* handleMessage(message) on the registry's node map: the new map.
handleMessage(nodes, message) ==
  LET id == message.tokenId
      kind == Dispatch(message)
  IN  IF kind = "create" THEN
        IF message.tokenId # message.snapshot.tokenId THEN nodes
        ELSE IF nodes[id] # NoNode
          THEN [nodes EXCEPT ![id] = handleCreateExisting(nodes[id], message.snapshot)]
        ELSE IF WisprNodeCtorRaises(id, message.snapshot) THEN nodes
        ELSE [nodes EXCEPT ![id] = NewWisprNode(id, message.snapshot)]
      ELSE IF kind = "patch" THEN
        IF message.version < 0 THEN nodes
        ELSE IF nodes[id] = NoNode THEN nodes
        ELSE [nodes EXCEPT ![id] = WisprNodeApplyPatch(nodes[id], message).node]
      ELSE IF kind = "destroy" THEN
        [nodes EXCEPT ![id] = NoNode]
      ELSE nodes

(***************************************************************************)
(* Inputs                                                                  *)
(***************************************************************************)
MaxOps == 2
MaxPatchVersion == 3
MaxObsCalls == 2

\* The ids a registry can hold, and the id the calls of most behaviours use.
TokenIds == {"n", "m"}
NodeIds == {"n"}
OtherId == "other"

\* { gold: 0, items: ["a", "b"], p: {} }
InitState ==
  Tbl([gold |-> Num(0),
       items |-> Tbl([k \in {"0", "1"} |-> IF k = "0" THEN Str("a") ELSE Str("b")]),
       p |-> Tbl(EmptyTable)])
\* { gold: 7 }
AltState == Tbl([gold |-> Num(7)])

OpIncGold(rel) == opIncrement(<<"gold">>, Num(100), rel)
OpSetGold(rel) == opSet(<<"gold">>, Num(50), rel)
OpMapSetK(rel) == opMapSet(<<"p">>, "k", Num(5), rel)
\* a caller contract violation: the empty path
OpEmptyPath(rel) == opSet(<<>>, Num(1), rel)
\* an increment of the container p, and a set of gold to the value it has
OpIncP(rel) == opIncrement(<<"p">>, Num(1), rel)
OpSetGoldZero(rel) == opSet(<<"gold">>, Num(0), rel)

Batches(ops, n) == UNION {[1..k -> ops] : k \in 1..n}

WisprPatch(tokenId, version, operations) ==
  [tokenId |-> tokenId, version |-> version, operations |-> operations]
WisprSnapshot(tokenId, version, data) ==
  [tokenId |-> tokenId, version |-> version, data |-> data]

(***************************************************************************)
(* The replication system.                                                 *)
(*   sNodes        WisprServerRegistry.nodes: id -> server node or NoNode  *)
(*   connected     the identities connected to the server                  *)
(*   requestTimes  WisprRateLimiter.requestTimes, now: the clock (tick())  *)
(*   relQ          per identity, the messages in flight on the reliable    *)
(*                 RemoteEvent, in send order                              *)
(*   resp          per identity, the bootstrap response in flight          *)
(*   cNodes        per identity, WisprClientRegistry.nodes                 *)
(*   isInitialized per identity, WisprClientRegistry.isInitialized         *)
(* History:                                                                *)
(*   issued        per id, the version of the last patch issued since the  *)
(*                 node was created (0 when none)                          *)
(*   sLast         the last call on the server registry / a server node    *)
(*   cLast         the last message a client registry handled              *)
(*   mirror        per identity and id: the identity was connected and in  *)
(*                 scope when the node was created, has stayed connected,  *)
(*                 and the node was since mutated only by successful       *)
(*                 patchNode / patchNodeMultiple calls with reliable       *)
(*                 operations                                              *)
(* The client registry connects one handler, to the state-update           *)
(* RemoteEvent, taken here to be the event the server fires its reliable   *)
(* messages on; nothing in it listens to the UnreliableRemoteEvent, so a   *)
(* message sent on the unreliable channel is recorded as sent and reaches  *)
(* no client.                                                              *)
(***************************************************************************)
VARIABLES obs, obsLast, obsSnap, obsCalls, obsDestroyed
obsVars == <<obs, obsLast, obsSnap, obsCalls, obsDestroyed>>
\* A state tree on which the functions of WisprPath.ts and applyPatch are
\* called directly, the last of those calls and their number.
VARIABLES tree, treeLast, treeCalls
treeVars == <<tree, treeLast, treeCalls>>
VARIABLES sNodes, connected, requestTimes, now, relQ, resp, cNodes, isInitialized,
          issued, sLast, cLast, mirror
serverVars == <<sNodes, connected, requestTimes, now, issued, sLast, mirror>>
VARIABLES nodeWaiters, resolved
VARIABLES patternListeners, subs
subVars == <<patternListeners, subs>>
clientVars == <<cNodes, isInitialized, cLast, nodeWaiters, resolved, subVars>>
sysVars == <<serverVars, relQ, resp, clientVars>>
vars == <<sysVars, obsVars, treeVars>>

NoCall == [call |-> "none"]

MaxVersion == 2
MaxQueue == 2
MaxBootstraps == 1
MaxFaultVersion == 4
MaxBootVersion == 1
MaxWaiters == 2
MaxSubs == 2
MaxDupVersion == 1
MaxWatchVersion == 2
MaxDestroyVersion == 2
MaxTreeCalls == 2
MaxListIndex == 2
MaxChannelVersion == 3
MaxLifetimeVersion == 3
MaxWaitVersion == 1
MaxLimiterCalls == 7
TickSeconds == 5
MaxNow == 15

\* The orders in which a loop over the node map can meet the ids: the
\* iteration order of a map is not specified.
NodeOrders == {<<"n", "m">>, <<"m", "n">>}
NoResp == [t |-> "none"]

\* The promises waitForNode has handed out are numbered; nodeWaiters has,
\* per id, the numbers of the waiters pushed and not yet run, in order, and
\* resolved has, per promise, every resolution it got: the node and how.
Waiters == 1..MaxWaiters
NoWaiters == [id \in TokenIds |-> <<>>]
NoneResolved == [w \in Waiters |-> <<>>]

\* The callbacks given to onNodeOfClassCreated are numbered.
\* patternListeners has, per pattern, the callbacks listening, in the order
\* they were pushed (<<>>: the map has no entry for the pattern); subs has,
\* per callback, the pattern it was registered with ("none": not yet).
Subs == 1..MaxSubs
Patterns == {"n", "m"}
NoListeners == [q \in Patterns |-> <<>>]
NoSubs == [s \in Subs |-> "none"]

SysInit ==
  /\ sNodes = [id \in TokenIds |-> NoNode]
  /\ connected = {}
  /\ requestTimes = [p \in Players |-> <<>>]
  /\ now = 0
  /\ relQ = [p \in Players |-> <<>>]
  /\ resp = [p \in Players |-> NoResp]
  /\ cNodes = [p \in Players |-> [id \in TokenIds |-> NoNode]]
  /\ isInitialized = [p \in Players |-> FALSE]
  /\ issued = [id \in TokenIds |-> 0]
  /\ sLast = NoCall
  /\ cLast = NoCall
  /\ mirror = [p \in Players |-> [id \in TokenIds |-> FALSE]]
  /\ nodeWaiters = [p \in Players |-> NoWaiters]
  /\ resolved = [p \in Players |-> NoneResolved]
  /\ patternListeners = [p \in Players |-> NoListeners]
  /\ subs = [p \in Players |-> NoSubs]

\* The record of a call on node id: whether a node was registered under id
\* and its version before and after the call (-1: no node), what was sent
\* and who was connected.
VersionOf(node) == IF node = NoNode THEN -1 ELSE node.version
ServerCall(call, id, raised, post, scope, ops, patch, sent) ==
  [call |-> call, tokenId |-> id, raised |-> raised, existed |-> sNodes[id] # NoNode,
   preVersion |-> VersionOf(sNodes[id]), postVersion |-> VersionOf(post),
   scope |-> scope, ops |-> ops, patch |-> patch, sent |-> sent, conn |-> connected,
   prevIssued |-> issued[id], sendRaised |-> FALSE]

\* The number of FireAllClients / FireClient calls a broadcast to scope makes.
TransportCalls(scope, conn) ==
  IF scope.kind = "all" THEN 1 ELSE Len(ScopeTargets(scope, conn))

Unmirror(id) == [p \in Players |-> [mirror[p] EXCEPT ![id] = FALSE]]

\* A createNode that checks only what the node constructor checks.
CreateNodeRaisesCtorOnly(id, scope, initialState) ==
  WisprServerNodeCtorRaises(scope, initialState)

\* createNode raises when the id is registered or the constructor raises.
CreateNodeRaises(id, scope, initialState) ==
  sNodes[id] # NoNode \/ WisprServerNodeCtorRaises(scope, initialState)

\* createNode(token, scope, initialState).  With fault the first transport
\* call of broadcastCreate raises: the catch around it warns and the call
\* returns the registered node.
CreateCall(id, scope, initialState, fault) ==
  LET raises == CreateNodeRaises(id, scope, initialState)
      node == NewWisprServerNode(id, scope, initialState)
  IN  /\ fault => ~raises /\ TransportCalls(scope, connected) > 0
      /\ sNodes' = IF raises THEN sNodes ELSE [sNodes EXCEPT ![id] = node]
      /\ issued' = IF raises THEN issued ELSE [issued EXCEPT ![id] = 0]
      /\ sLast' = [ServerCall("createNode", id, raises, IF raises THEN sNodes[id] ELSE node,
                              scope, <<>>, NoCall,
                              IF raises \/ fault THEN <<>> ELSE broadcastCreate(node, connected))
                     EXCEPT !.sendRaised = fault]
      /\ mirror' = IF raises THEN mirror
                   ELSE [p \in Players |->
                           [mirror[p] EXCEPT ![id] = ~fault /\ p \in connected
                                                     /\ shouldReplicateTo(node, p)]]
      /\ UNCHANGED <<connected, requestTimes, now, clientVars, obsVars, treeVars>>

SrvCreateNode(id, scope, initialState) == CreateCall(id, scope, initialState, FALSE)

\* A destroyNode that broadcasts whether or not the id is registered.
DestroySendsAlways(id) == broadcastDestroy(id, ScopeAll, connected)

\* What destroyNode sends: nothing for an absent id, else broadcastDestroy
\* to the scope the node had.
DestroySends(id) ==
  IF sNodes[id] = NoNode THEN <<>>
  ELSE broadcastDestroy(id, sNodes[id].scope, connected)

\* destroyNode(token): a silent no-op on an absent id.  broadcastDestroy is
\* called outside any try: with fault its first transport call raises, the
\* error leaves destroyNode and this.nodes.delete is not reached.
DestroyCall(id, fault) ==
  LET node == sNodes[id]
  IN  /\ fault => node # NoNode /\ TransportCalls(node.scope, connected) > 0
      /\ sNodes' = IF fault THEN sNodes ELSE [sNodes EXCEPT ![id] = NoNode]
      /\ sLast' = [ServerCall("destroyNode", id, fault, IF fault THEN node ELSE NoNode,
                              IF node = NoNode THEN NoCall ELSE node.scope, <<>>, NoCall,
                              IF fault THEN <<>> ELSE DestroySends(id))
                     EXCEPT !.sendRaised = fault]
      /\ mirror' = IF fault THEN mirror ELSE Unmirror(id)
      /\ UNCHANGED <<connected, requestTimes, now, issued, clientVars, obsVars, treeVars>>

SrvDestroyNode(id) == DestroyCall(id, FALSE)

\* A loop over the operations that counts the batch as one version step.
ServerApplyAllOneBump(node, operations, i) ==
  LET r == applyPatch(node.state, WisprPatch(node.tokenId, node.version + 1, operations))
  IN  IF r.err THEN [err |-> TRUE, node |-> [node EXCEPT !.state = r.state]]
      ELSE [err |-> FALSE, node |-> [node EXCEPT !.state = r.state, !.version = @ + 1]]

\* The loop of patchNodeMultiple from operation i on: a raising operation
\* ends the call; the operations before it stay applied.
RECURSIVE ServerApplyAll(_, _, _)
ServerApplyAll(node, operations, i) ==
  IF i > Len(operations) THEN [err |-> FALSE, node |-> node]
  ELSE LET r == ServerApplyOperation(node, operations[i])
       IN  IF r.err THEN [err |-> TRUE, node |-> r.node]
           ELSE ServerApplyAll(r.node, operations, i + 1)

\* A patch stamped with the version after the next one.
PatchVersionNext(node) == node.version + 1

\* version: node.getVersion() of the patch patchNode and patchNodeMultiple
\* build, read after the operations were applied.
PatchVersion(node) == node.version

\* A lookup that registers a fresh node when the id is absent.
PatchTargetOrNew(id) ==
  IF sNodes[id] = NoNode THEN NewWisprServerNode(id, ScopeAll, InitState) ELSE sNodes[id]

\* this.nodes.get(token.id) in patchNode and patchNodeMultiple
PatchTarget(id) == sNodes[id]

\* patchNode(token, operation) is the case of one operation; the body of
\* patchNodeMultiple(token, operations) after its argument checks.
\* With fault the first transport call of broadcastPatch raises: the catch
\* around it warns and the call returns.
PatchCallWith(call, id, operations, fault) ==
  LET node == PatchTarget(id)
      r == ServerApplyAll(node, operations, 1)
      raises == node = NoNode \/ Len(operations) = 0 \/ r.err
      patch == WisprPatch(id, PatchVersion(r.node), operations)
  IN  /\ fault => ~raises /\ TransportCalls(node.scope, connected) > 0
      /\ sNodes' = IF node = NoNode \/ Len(operations) = 0 THEN sNodes
                   ELSE [sNodes EXCEPT ![id] = r.node]
      /\ issued' = IF raises THEN issued ELSE [issued EXCEPT ![id] = patch.version]
      /\ sLast' = [ServerCall(call, id, raises,
                              IF node = NoNode \/ Len(operations) = 0 THEN node ELSE r.node,
                              IF node = NoNode THEN NoCall ELSE node.scope,
                              operations,
                              IF raises THEN NoCall ELSE patch,
                              IF raises \/ fault THEN <<>>
                              ELSE broadcastPatch(r.node, patch, connected))
                     EXCEPT !.sendRaised = fault]
      /\ mirror' = IF node = NoNode \/ Len(operations) = 0 THEN mirror
                   ELSE IF raises \/ fault \/ PatchChannel(patch) # "reliable"
                          \/ \E i \in 1..Len(operations) : operations[i].reliability = "unreliable"
                     THEN Unmirror(id)
                   ELSE mirror
      /\ UNCHANGED <<connected, requestTimes, now, clientVars, obsVars, treeVars>>

PatchCall(call, id, operations) == PatchCallWith(call, id, operations, FALSE)

SrvPatchNode(id, operation) == PatchCall("patchNode", id, <<operation>>)
SrvPatchNodeMultiple(id, operations) == PatchCall("patchNodeMultiple", id, operations)

\* WisprServerNode.set / increment / delete / insert / remove on the node
\* registered under id: each builds its operation, with the reliability it
\* was given ("reliable" by default; setReliable, setUnreliable and the like
\* pass theirs), and calls applyOperation.
NodeCall(call, id, operation) ==
  LET node == sNodes[id]
      r == ServerApplyOperation(node, operation)
  IN  /\ node # NoNode
      /\ sNodes' = [sNodes EXCEPT ![id] = r.node]
      /\ sLast' = ServerCall(call, id, r.err, r.node, node.scope, <<operation>>, NoCall, <<>>)
      /\ mirror' = Unmirror(id)
      /\ UNCHANGED <<connected, requestTimes, now, issued, clientVars, obsVars, treeVars>>

SrvNodeSet(id, path, value, reliability) ==
  NodeCall("node.set", id, opSet(path, value, reliability))
SrvNodeIncrement(id, path, delta, reliability) ==
  NodeCall("node.increment", id, opIncrement(path, delta, reliability))
SrvNodeDelete(id, path, reliability) ==
  NodeCall("node.delete", id, opDelete(path, reliability))
SrvNodeInsert(id, path, index, value, reliability) ==
  NodeCall("node.insert", id, opListInsert(path, index, value, reliability))
SrvNodeRemove(id, path, index, reliability) ==
  NodeCall("node.remove", id, opListRemoveAt(path, index, reliability))

\* A handler that collects the nodes whatever the limiter answered.
BootstrapResponseUngated(allowed, order, player) == InitialData(sNodes, order, player)

\* What handleInitialDataRequest returns: [] when the limiter denies, else
\* the create messages collected over the node map.
BootstrapResponse(allowed, order, player) ==
  IF allowed THEN InitialData(sNodes, order, player) ELSE <<>>

\* handleInitialDataRequest(player): the rate limiter first.
SrvHandleInitialDataRequest(player) ==
  LET r == canRequest(requestTimes[player], now)
  IN  /\ requestTimes' = [requestTimes EXCEPT ![player] = r.times]
      /\ \E order \in NodeOrders :
           sLast' = [call |-> "handleInitialDataRequest", player |-> player,
                     allowed |-> r.allowed,
                     response |-> BootstrapResponse(r.allowed, order, player)]
      /\ UNCHANGED <<sNodes, connected, now, issued, mirror, cNodes, nodeWaiters, resolved,
                     subVars, obsVars, treeVars>>

\* A player joins: a fresh client registry.  A player leaves: what was in
\* flight to it is gone.
PlayerJoin(p) ==
  /\ p \notin connected
  /\ connected' = connected \cup {p}
  /\ UNCHANGED <<sNodes, requestTimes, now, issued, sLast, mirror, relQ, resp, clientVars, obsVars, treeVars>>

PlayerLeave(p) ==
  /\ p \in connected
  /\ connected' = connected \ {p}
  /\ relQ' = [relQ EXCEPT ![p] = <<>>]
  /\ resp' = [resp EXCEPT ![p] = NoResp]
  /\ cNodes' = [cNodes EXCEPT ![p] = [id \in TokenIds |-> NoNode]]
  /\ isInitialized' = [isInitialized EXCEPT ![p] = FALSE]
  /\ mirror' = [mirror EXCEPT ![p] = [id \in TokenIds |-> FALSE]]
  /\ nodeWaiters' = [nodeWaiters EXCEPT ![p] = NoWaiters]
  /\ resolved' = [resolved EXCEPT ![p] = NoneResolved]
  /\ patternListeners' = [patternListeners EXCEPT ![p] = NoListeners]
  /\ subs' = [subs EXCEPT ![p] = NoSubs]
  /\ UNCHANGED <<sNodes, requestTimes, now, issued, sLast, cLast, obsVars, treeVars>>

(***************************************************************************)
(* Transport.  NetOn: each reliable send to a connected identity joins the *)
(* end of its queue.  NetOff: the server taken alone, sends only recorded. *)
(***************************************************************************)
ReliableFor(sent, p) ==
  LET mine == SelectSeq(sent, LAMBDA s : s.to = p /\ s.channel = "reliable")
  IN  [i \in 1..Len(mine) |-> mine[i].message]

NetOn(sent) ==
  /\ \A p \in connected : Len(relQ[p]) + Len(ReliableFor(sent, p)) <= MaxQueue
  /\ relQ' = [p \in Players |-> IF p \in connected THEN relQ[p] \o ReliableFor(sent, p) ELSE relQ[p]]
  /\ UNCHANGED <<resp, isInitialized>>

NetOff(sent) == UNCHANGED <<relQ, resp, isInitialized>>

Net(on, sent) == IF on THEN NetOn(sent) ELSE NetOff(sent)

(***************************************************************************)
(* WisprClientRegistry of identity p                                       *)
(***************************************************************************)
\* handleCreate reaches "Create new node" and the constructor returns.
Materializes(nodes, message) ==
  /\ Dispatch(message) = "create"
  /\ message.tokenId = message.snapshot.tokenId
  /\ nodes[message.tokenId] = NoNode
  /\ ~WisprNodeCtorRaises(message.tokenId, message.snapshot)

\* A handleCreate that leaves the waiters it ran in the map.
WaitersKept(waiters, id) == waiters

\* this.nodeWaiters.delete(message.tokenId)
WaitersAfterCreate(waiters, id) == [waiters EXCEPT ![id] = <<>>]

\* for (const waiter of waiters) waiter(node): each resolves its promise.
RunWaiters(res, ws, node) ==
  [w \in Waiters |->
     IF \E i \in 1..Len(ws) : ws[i] = w
       THEN Append(res[w], [node |-> node, how |-> "create"])
       ELSE res[w]]

\* handleMessage on the registry reg = [nodes, waiters, resolved]: the node
\* map as handleMessage leaves it, and the waiters of a new node run.
RegHandle(reg, message) ==
  LET id == message.tokenId
      nodes == handleMessage(reg.nodes, message)
  IN  IF Materializes(reg.nodes, message)
        THEN [nodes |-> nodes,
              waiters |-> WaitersAfterCreate(reg.waiters, id),
              resolved |-> RunWaiters(reg.resolved, reg.waiters[id],
                                      NewWisprNode(id, message.snapshot))]
        ELSE [reg EXCEPT !.nodes = nodes]

RECURSIVE RegHandleAll(_, _)
RegHandleAll(reg, messages) ==
  IF messages = <<>> THEN reg
  ELSE RegHandleAll(RegHandle(reg, Head(messages)), Tail(messages))

Registry(p) == [nodes |-> cNodes[p], waiters |-> nodeWaiters[p], resolved |-> resolved[p]]

\* A waitForNode that pushes a waiter whether or not the node is there.
NeedsWaiterAlways(nodes, id) == TRUE

\* const existing = this.nodes.get(token.id): waitForNode goes on to push a
\* waiter when there is none.
NeedsWaiter(nodes, id) == nodes[id] = NoNode

\* waitForNode(token): the node at once when it is there, else a waiter
\* pushed on the list of the id.  w is the number of the promise returned.
CliWaitForNode(p, id) ==
  LET used == {w \in Waiters : resolved[p][w] # <<>>
                               \/ \E i \in TokenIds : \E k \in 1..Len(nodeWaiters[p][i]) :
                                    nodeWaiters[p][i][k] = w}
  IN  /\ p \in connected
      /\ used # Waiters
      /\ LET w == CHOOSE x \in Waiters \ used : \A y \in Waiters \ used : x <= y
         IN  IF ~NeedsWaiter(cNodes[p], id)
               THEN /\ resolved' = [resolved EXCEPT ![p][w] =
                                      <<[node |-> cNodes[p][id], how |-> "immediate"]>>]
                    /\ UNCHANGED nodeWaiters
               ELSE /\ nodeWaiters' = [nodeWaiters EXCEPT ![p][id] = Append(@, w)]
                    /\ UNCHANGED resolved
      /\ cLast' = [call |-> "waitForNode", player |-> p, tokenId |-> id,
                   held |-> cNodes[p][id] # NoNode]
      /\ UNCHANGED <<serverVars, relQ, resp, cNodes, isInitialized, subVars, obsVars, treeVars>>

\* The characters of the strings used as ids and patterns.
Chars(str) == IF str = "" THEN <<>> ELSE IF str = "nm" THEN <<"n", "m">> ELSE <<str>>

\* id.sub(1, pattern.size()) === pattern
StartsWith(id, pattern) ==
  LET c == Chars(id)
      n == IF Len(Chars(pattern)) < Len(c) THEN Len(Chars(pattern)) ELSE Len(c)
  IN  SubSeq(c, 1, n) = Chars(pattern)

\* The function onNodeOfClassCreated returns, for callback s: s is taken
\* out of the array of its pattern, and an array left empty is deleted.
Disconnect(L, s) == [q \in Patterns |-> SelectSeq(L[q], LAMBDA x : x # s)]

\* What the callbacks do when they are invoked during a dispatch:
\* script[s] = 0, s only looks at the node; script[s] = t, s calls the
\* disconnect function of callback t.  One callback at most does so in a
\* dispatch.
NoScript == [s \in Subs |-> 0]
Scripts(L) ==
  LET on == {s \in Subs : \E q \in Patterns : \E i \in 1..Len(L[q]) : L[q][i] = s}
  IN  {script \in [Subs -> {0} \cup on] :
         /\ \A s \in Subs \ on : script[s] = 0
         /\ \A s, t \in Subs : (script[s] # 0 /\ script[t] # 0) => s = t}

\* for (const listener of listeners): the array is walked by index, so a
\* removal made by a callback moves the later callbacks one place down
\* while the index moves on.
RECURSIVE RunListeners(_, _, _, _, _, _)
RunListeners(L, pattern, i, id, script, notified) ==
  IF i > Len(L[pattern]) THEN [listeners |-> L, notified |-> notified]
  ELSE LET s == L[pattern][i]
       IN  RunListeners(IF script[s] = 0 THEN L ELSE Disconnect(L, script[s]),
                        pattern, i + 1, id, script,
                        Append(notified, [sub |-> s, tokenId |-> id]))

\* handleCreate, "Fire pattern listeners": the patterns in the order the
\* map yields them.
PatternOrders == {<<"n", "m">>, <<"m", "n">>}
RECURSIVE FirePatternListeners(_, _, _, _, _)
FirePatternListeners(L, order, id, script, notified) ==
  IF order = <<>> THEN [listeners |-> L, notified |-> notified]
  ELSE LET r == IF StartsWith(id, Head(order))
                  THEN RunListeners(L, Head(order), 1, id, script, notified)
                  ELSE [listeners |-> L, notified |-> notified]
       IN  FirePatternListeners(r.listeners, Tail(order), id, script, r.notified)

\* The listeners part of handleMessage over a sequence of messages: nodes
\* is the node map before each message.
RECURSIVE NotifyAll(_, _, _, _, _, _)
NotifyAll(nodes, L, messages, order, script, notified) ==
  IF messages = <<>> THEN [listeners |-> L, notified |-> notified]
  ELSE LET message == Head(messages)
           r == IF Materializes(nodes, message)
                  THEN FirePatternListeners(L, order, message.tokenId, script, notified)
                  ELSE [listeners |-> L, notified |-> notified]
       IN  NotifyAll(handleMessage(nodes, message), r.listeners, Tail(messages), order,
                     script, r.notified)

\* The existing nodes a new callback is invoked for, in map order.
RECURSIVE ExistingMatches(_, _, _, _)
ExistingMatches(nodes, order, pattern, s) ==
  IF order = <<>> THEN <<>>
  ELSE (IF nodes[Head(order)] # NoNode /\ StartsWith(Head(order), pattern)
          THEN <<[sub |-> s, tokenId |-> Head(order)]>> ELSE <<>>)
       \o ExistingMatches(nodes, Tail(order), pattern, s)

\* onNodeOfClassCreated(pattern, callback) with a callback not used before:
\* raises on the empty pattern, else pushes the callback and invokes it for
\* the nodes there are.
CliOnNodeOfClassCreated(p, pattern) ==
  LET free == {s \in Subs : subs[p][s] = "none"}
  IN  /\ p \in connected
      /\ free # {}
      /\ LET s == CHOOSE x \in free : \A y \in free : x <= y
         IN  IF pattern = ""
               THEN /\ cLast' = [call |-> "onNodeOfClassCreated", player |-> p,
                                 pattern |-> pattern, raised |-> TRUE, sub |-> 0,
                                 notified |-> <<>>]
                    /\ UNCHANGED subVars
               ELSE /\ patternListeners' =
                         [patternListeners EXCEPT ![p][pattern] = Append(@, s)]
                    /\ subs' = [subs EXCEPT ![p][s] = pattern]
                    /\ \E order \in NodeOrders :
                         cLast' = [call |-> "onNodeOfClassCreated", player |-> p,
                                   pattern |-> pattern, raised |-> FALSE, sub |-> s,
                                   notified |-> ExistingMatches(cNodes[p], order, pattern, s)]
      /\ UNCHANGED <<serverVars, relQ, resp, cNodes, isInitialized, nodeWaiters, resolved,
                     obsVars, treeVars>>

\* The application subscribes to a path of the node the registry has for
\* id: getNode(token).listenForChange(path, callback).
CliListenForChange(p, id, path) ==
  /\ p \in connected
  /\ cNodes[p][id] # NoNode
  /\ pathToKey(path) \notin cNodes[p][id].changeSignals
  /\ cNodes' = [cNodes EXCEPT ![p][id] = WisprNodeListenForChange(@, path)]
  /\ UNCHANGED <<serverVars, relQ, resp, isInitialized, cLast, nodeWaiters, resolved, subVars,
                 obsVars, treeVars>>

\* A call of the disconnect function of callback s, outside any dispatch.
CliDisconnect(p, s) ==
  /\ p \in connected
  /\ subs[p][s] # "none"
  /\ patternListeners' = [patternListeners EXCEPT ![p] = Disconnect(@, s)]
  /\ cLast' = [call |-> "disconnect", player |-> p, sub |-> s]
  /\ UNCHANGED <<serverVars, relQ, resp, cNodes, isInitialized, nodeWaiters, resolved, subs,
                 obsVars, treeVars>>

\* The OnClientEvent handler: handleMessage on the next message in flight.
CliDeliver(p) ==
  /\ relQ[p] # <<>>
  /\ LET message == Head(relQ[p])
     IN  /\ \E reg \in {RegHandle(Registry(p), message)} :
              /\ cNodes' = [cNodes EXCEPT ![p] = reg.nodes]
              /\ nodeWaiters' = [nodeWaiters EXCEPT ![p] = reg.waiters]
              /\ resolved' = [resolved EXCEPT ![p] = reg.resolved]
         /\ \E script \in Scripts(patternListeners[p]) :
            \E order \in IF patternListeners[p] = NoListeners
                            THEN {<<>>} ELSE PatternOrders :
            \E out \in {NotifyAll(cNodes[p], patternListeners[p], <<message>>, order,
                                   script, <<>>)} :
              /\ patternListeners' = [patternListeners EXCEPT ![p] = out.listeners]
              /\ cLast' = [call |-> "deliver", player |-> p, message |-> message,
                           dispatch |-> Dispatch(message),
                           held |-> cNodes[p][message.tokenId] # NoNode,
                           script |-> script, notified |-> out.notified]
         /\ UNCHANGED subs
  /\ relQ' = [relQ EXCEPT ![p] = Tail(relQ[p])]
  /\ UNCHANGED <<serverVars, resp, isInitialized, obsVars, treeVars>>

\* requestInitialData up to InvokeServer.  Once isInitialized is set the
\* call warns and returns; otherwise the server handles the request and the
\* response is in flight (denied tells whether the limiter refused it).
CliRequestInitialData(p) ==
  /\ p \in connected
  /\ resp[p] = NoResp
  /\ cLast' = [call |-> "requestInitialData", player |-> p, sent |-> ~isInitialized[p]]
  /\ IF isInitialized[p]
       THEN UNCHANGED <<serverVars, relQ, resp, isInitialized, cNodes, nodeWaiters, resolved,
                        subVars, obsVars, treeVars>>
       ELSE /\ SrvHandleInitialDataRequest(p)
            /\ resp' = [resp EXCEPT ![p] = [t |-> "response", messages |-> sLast'.response,
                                            denied |-> ~sLast'.allowed]]
            /\ UNCHANGED <<relQ, isInitialized>>

\* requestInitialData from the return of InvokeServer on.
RECURSIVE HandleAll(_, _)
HandleAll(nodes, messages) ==
  IF messages = <<>> THEN nodes
  ELSE HandleAll(handleMessage(nodes, Head(messages)), Tail(messages))

CliReceiveInitialData(p) ==
  /\ resp[p] # NoResp
  /\ \E reg \in {RegHandleAll(Registry(p), resp[p].messages)} :
       /\ cNodes' = [cNodes EXCEPT ![p] = reg.nodes]
       /\ nodeWaiters' = [nodeWaiters EXCEPT ![p] = reg.waiters]
       /\ resolved' = [resolved EXCEPT ![p] = reg.resolved]
  /\ isInitialized' = [isInitialized EXCEPT ![p] = TRUE]
  /\ resp' = [resp EXCEPT ![p] = NoResp]
  /\ \E script \in Scripts(patternListeners[p]) :
     \E order \in IF patternListeners[p] = NoListeners THEN {<<>>} ELSE PatternOrders :
     \E out \in {NotifyAll(cNodes[p], patternListeners[p], resp[p].messages, order,
                            script, <<>>)} :
       /\ patternListeners' = [patternListeners EXCEPT ![p] = out.listeners]
       /\ cLast' = [call |-> "receiveInitialData", player |-> p, denied |-> resp[p].denied,
                    count |-> Len(resp[p].messages), script |-> script,
                    notified |-> out.notified]
  /\ UNCHANGED subs
  /\ UNCHANGED <<serverVars, relQ, obsVars, treeVars>>

(***************************************************************************)
(* The observer node on its own: any caller, any patch, any snapshot.      *)
(*   obs       the node                                                    *)
(*   obsLast   the last call: its arguments, the node before it, its       *)
(*             result, what it fired, and the patch call before it         *)
(*   obsSnap   the last snapshot the node took its state from, and whether *)
(*             a patch of a higher version was delivered since             *)
(*   obsCalls  number of applyPatch / applySnapshot calls so far           *)
(*   obsDestroyed  destroy was called and no subscription was made since   *)
(***************************************************************************)

ObsOps == {OpIncGold("none"), OpSetGold("none"), OpMapSetK("none"), OpEmptyPath("none")}
ObsPatches ==
  {WisprPatch(id, v, ops) : id \in NodeIds, v \in 0..MaxPatchVersion, ops \in Batches(ObsOps, MaxOps)}
    \cup {WisprPatch(OtherId, MaxPatchVersion, <<OpSetGold("none")>>)}
ObsSnapshots ==
  {WisprSnapshot(id, v, d) : id \in NodeIds, v \in 0..(MaxPatchVersion - 1), d \in {InitState, AltState}}

NoTree == tree = Nil /\ treeLast = NoCall /\ treeCalls = 0

ObsInit ==
  \E snapshot \in ObsSnapshots :
    /\ obs = NewWisprNode(snapshot.tokenId, snapshot)
    /\ obsLast = NoCall
    /\ obsSnap = [version |-> snapshot.version, data |-> snapshot.data, higher |-> FALSE,
                  applied |-> FALSE]
    /\ obsCalls = 0
    /\ obsDestroyed = FALSE
    /\ SysInit
    /\ NoTree

\* One applyPatch call; redelivery tells whether the patch is the one of the
\* call just before (the transport delivering it a second time).
ObsCallApplyPatch(patch, redelivery) ==
  /\ obsCalls < MaxObsCalls
  /\ LET r == WisprNodeApplyPatch(obs, patch)
     IN  /\ obs' = r.node
         /\ obsLast' = [call |-> "applyPatch", patch |-> patch, pre |-> obs,
                        result |-> r.result, fired |-> r.fired,
                        redelivery |-> redelivery,
                        first |-> IF redelivery
                                    THEN [pre |-> obsLast.pre, result |-> obsLast.result]
                                    ELSE NoCall]
         /\ obsSnap' = IF patch.tokenId = obs.tokenId /\ patch.version > obsSnap.version
                         THEN [obsSnap EXCEPT !.higher = TRUE] ELSE obsSnap
  /\ obsCalls' = obsCalls + 1
  /\ UNCHANGED obsDestroyed
  /\ UNCHANGED <<sysVars, treeVars>>

ObsApplyPatch(patch) == ObsCallApplyPatch(patch, FALSE)

ObsRedeliverPatch ==
  /\ obsLast.call = "applyPatch"
  /\ ~obsLast.redelivery
  /\ ObsCallApplyPatch(obsLast.patch, TRUE)

ObsApplySnapshot(snapshot) ==
  /\ obsCalls < MaxObsCalls
  /\ LET r == WisprNodeApplySnapshot(obs, snapshot)
     IN  /\ obs' = r.node
         /\ obsLast' = [call |-> "applySnapshot", snapshot |-> snapshot, pre |-> obs,
                        result |-> r.result, fired |-> r.fired]
         /\ obsSnap' = IF r.result = "applied"
                         THEN [version |-> snapshot.version, data |-> snapshot.data,
                               higher |-> FALSE, applied |-> TRUE]
                         ELSE obsSnap
  /\ obsCalls' = obsCalls + 1
  /\ UNCHANGED obsDestroyed
  /\ UNCHANGED <<sysVars, treeVars>>

WatchPaths == {<<"gold">>}

ObsListenForChange(path) ==
  /\ pathToKey(path) \notin obs.changeSignals
  /\ obs' = WisprNodeListenForChange(obs, path)
  /\ obsDestroyed' = FALSE
  /\ UNCHANGED <<obsLast, obsSnap, obsCalls>>
  /\ UNCHANGED <<sysVars, treeVars>>

ObsListenForAnyChange ==
  /\ ~obs.anyListener
  /\ obs' = WisprNodeListenForAnyChange(obs)
  /\ obsDestroyed' = FALSE
  /\ UNCHANGED <<obsLast, obsSnap, obsCalls>>
  /\ UNCHANGED <<sysVars, treeVars>>

ObsListenForRawPatch ==
  /\ ~obs.rawListener
  /\ obs' = WisprNodeListenForRawPatch(obs)
  /\ obsDestroyed' = FALSE
  /\ UNCHANGED <<obsLast, obsSnap, obsCalls>>
  /\ UNCHANGED <<sysVars, treeVars>>

ObsDestroy ==
  /\ obs' = WisprNodeDestroy(obs)
  /\ obsLast' = [call |-> "destroy", pre |-> obs, destroyed |-> obsDestroyed]
  /\ obsDestroyed' = TRUE
  /\ UNCHANGED <<obsSnap, obsCalls>>
  /\ UNCHANGED <<sysVars, treeVars>>

(***************************************************************************)
(* Direct calls of getValueAtPath, setValueAtPath, deleteValueAtPath and   *)
(* applyPatch on a tree.  Each of the three path functions starts with     *)
(* the isValidPath check and raises when it fails.                         *)
(***************************************************************************)
PathRaises(path) == ~isValidPath(path)

TreeCall ==
  /\ treeCalls < MaxTreeCalls
  /\ treeCalls' = treeCalls + 1
  /\ UNCHANGED <<sysVars, obsVars>>

TreeGet(path) ==
  /\ TreeCall
  /\ treeLast' = [call |-> "getValueAtPath", pre |-> tree, path |-> path,
                  raised |-> PathRaises(path),
                  value |-> IF PathRaises(path) THEN Nil ELSE getValueAtPath(tree, path),
                  prev |-> treeLast]
  /\ UNCHANGED tree

TreeSet(path, value) ==
  /\ TreeCall
  /\ tree' = IF PathRaises(path) THEN tree ELSE setValueAtPath(tree, path, value)
  /\ treeLast' = [call |-> "setValueAtPath", pre |-> tree, path |-> path, value |-> value,
                  raised |-> PathRaises(path)]

TreeDelete(path) ==
  /\ TreeCall
  /\ tree' = IF PathRaises(path) THEN tree ELSE deleteValueAtPath(tree, path)
  /\ treeLast' = [call |-> "deleteValueAtPath", pre |-> tree, path |-> path,
                  raised |-> PathRaises(path)]

TreeApplyPatch(patch) ==
  \E r \in {applyPatch(tree, patch)} :
    /\ TreeCall
    /\ tree' = r.state
    /\ treeLast' = [call |-> "applyPatch", pre |-> tree, patch |-> patch, raised |-> r.err]

ObsNext ==
  \/ \E patch \in ObsPatches : ObsApplyPatch(patch)
  \/ ObsRedeliverPatch
  \/ \E snapshot \in ObsSnapshots : ObsApplySnapshot(snapshot)
  \/ \E path \in WatchPaths : ObsListenForChange(path)
  \/ ObsListenForAnyChange
  \/ ObsListenForRawPatch


(***************************************************************************)
(* Specifications                                                          *)
(***************************************************************************)
NoObs ==
  /\ obs = NoNode
  /\ obsLast = NoCall
  /\ obsSnap = NoCall
  /\ obsCalls = 0
  /\ obsDestroyed = FALSE

Init == SysInit /\ NoObs /\ NoTree

Rels == {"reliable", "unreliable"}

\* Room for k more operations on node id below the version bound.
Room(id, k, maxVersion) == sNodes[id] # NoNode => sNodes[id].version + k <= maxVersion

\* The calls the application makes on the server registry, over the given
\* inputs.
RegistryNext(net, scopes, ops, batches, maxVersion) ==
  \/ \E id \in NodeIds, scope \in scopes, initialState \in {InitState} :
       SrvCreateNode(id, scope, initialState) /\ Net(net, sLast'.sent)
  \/ \E id \in NodeIds : SrvDestroyNode(id) /\ Net(net, sLast'.sent)
  \/ \E id \in NodeIds, operation \in ops :
       Room(id, 1, maxVersion) /\ SrvPatchNode(id, operation) /\ Net(net, sLast'.sent)
  \/ \E id \in NodeIds, operations \in batches \cup {<<>>} :
       /\ Room(id, Len(operations), maxVersion)
       /\ SrvPatchNodeMultiple(id, operations)
       /\ Net(net, sLast'.sent)

\* The calls the application makes on a server node directly.
NodeNext(net, maxVersion) ==
  \/ \E id \in NodeIds, reliability \in Rels :
       Room(id, 1, maxVersion) /\ SrvNodeSet(id, <<"gold">>, Num(50), reliability) /\ Net(net, sLast'.sent)
  \/ \E id \in NodeIds :
       Room(id, 1, maxVersion) /\ SrvNodeIncrement(id, <<"gold">>, Num(100), "reliable") /\ Net(net, sLast'.sent)
  \/ \E id \in NodeIds :
       Room(id, 1, maxVersion) /\ SrvNodeDelete(id, <<"gold">>, "reliable") /\ Net(net, sLast'.sent)
  \/ \E id \in NodeIds :
       /\ Room(id, 1, maxVersion)
       /\ SrvNodeInsert(id, <<"items">>, 0, Str("sword"), "reliable")
       /\ Net(net, sLast'.sent)
  \/ \E id \in NodeIds :
       Room(id, 1, maxVersion) /\ SrvNodeRemove(id, <<"items">>, 1, "unreliable") /\ Net(net, sLast'.sent)

\* The server registry on its own: every call, identities joining and
\* leaving, bootstrap requests of identity A.
ServerScopes ==
  {ScopeAll, ScopePlayer("B"), ScopePlayers(<<"A", "B">>), ScopePlayers(<<"A", "A">>),
   [kind |-> "everyone"]}
ServerOps == {OpIncGold("none"), OpSetGold("unreliable"), OpEmptyPath("none")}
ServerBatches == Batches({OpIncGold("none"), OpEmptyPath("none")}, MaxOps)

ServerOnlyNext ==
  \/ RegistryNext(FALSE, ServerScopes, ServerOps, ServerBatches, MaxVersion)
  \/ NodeNext(FALSE, MaxVersion)
  \/ \E p \in {"A"} :
       /\ Len(requestTimes[p]) < MaxBootstraps
       /\ SrvHandleInitialDataRequest(p)
       /\ UNCHANGED <<relQ, resp, isInitialized, cLast>>
  \/ \E p \in Players : PlayerJoin(p)
  \/ \E p \in Players : PlayerLeave(p)

SpecServer == Init /\ [][ServerOnlyNext]_vars

\* Server, transport and clients together; one identity joins and plays.
SystemScopes == {ScopeAll, ScopePlayer("B")}
SystemOps == {OpIncGold("none"), OpSetGold("unreliable")}
SystemPlayers == {"A"}

Next ==
  \/ RegistryNext(TRUE, SystemScopes, SystemOps, Batches(SystemOps, MaxOps), MaxVersion)
  \/ \E id \in NodeIds :
       /\ Room(id, 1, MaxVersion)
       /\ SrvNodeSet(id, <<"gold">>, Num(50), "reliable")
       /\ Net(TRUE, sLast'.sent)
  \/ \E p \in SystemPlayers : PlayerJoin(p)
  \/ \E p \in SystemPlayers : CliDeliver(p)
  \/ \E p \in SystemPlayers : CliRequestInitialData(p)
  \/ \E p \in SystemPlayers : CliReceiveInitialData(p)

Spec == Init /\ [][Next]_vars

\* A client whose application waits for nodes while the server creates,
\* patches and destroys them and the client bootstraps.
WaitersNext ==
  \/ \E id \in NodeIds : SrvCreateNode(id, ScopeAll, InitState) /\ NetOn(sLast'.sent)
  \/ \E id \in NodeIds : SrvDestroyNode(id) /\ NetOn(sLast'.sent)
  \/ \E id \in NodeIds :
        /\ Room(id, 1, MaxWaitVersion)
        /\ SrvPatchNode(id, OpIncGold("none"))
        /\ NetOn(sLast'.sent)
  \/ \E p \in SystemPlayers : PlayerJoin(p)
  \/ \E p \in SystemPlayers : CliDeliver(p)
  \/ \E p \in SystemPlayers : CliRequestInitialData(p)
  \/ \E p \in SystemPlayers : CliReceiveInitialData(p)
  \/ \E p \in SystemPlayers, id \in NodeIds : CliWaitForNode(p, id)

SpecWaiters == Init /\ [][WaitersNext]_vars

\* A client whose application subscribes to id prefixes and cancels, also
\* from inside its callbacks, while nodes are created and destroyed.
PrefixNext ==
  \/ \E id \in TokenIds : SrvCreateNode(id, ScopeAll, InitState) /\ NetOn(sLast'.sent)
  \/ \E id \in TokenIds : SrvDestroyNode(id) /\ NetOn(sLast'.sent)
  \/ \E p \in SystemPlayers : PlayerJoin(p)
  \/ \E p \in SystemPlayers : CliDeliver(p)
  \/ \E p \in SystemPlayers, pattern \in Patterns \cup {""} : CliOnNodeOfClassCreated(p, pattern)
  \/ \E p \in SystemPlayers, s \in Subs : CliDisconnect(p, s)

SpecPrefix == Init /\ [][PrefixNext]_vars

\* A client that gets the create message of a node it already has: the
\* bootstrap response and the broadcast both carry it.
DuplicateNext ==
  \/ \E id \in NodeIds : SrvCreateNode(id, ScopeAll, InitState) /\ NetOn(sLast'.sent)
  \/ \E id \in NodeIds :
        /\ Room(id, 1, MaxDupVersion)
        /\ SrvPatchNode(id, OpIncGold("none"))
        /\ NetOn(sLast'.sent)
  \/ \E p \in SystemPlayers : PlayerJoin(p)
  \/ \E p \in SystemPlayers : CliDeliver(p)
  \/ \E p \in SystemPlayers : CliRequestInitialData(p)
  \/ \E p \in SystemPlayers : CliReceiveInitialData(p)
  \/ \E p \in SystemPlayers, id \in NodeIds : CliWaitForNode(p, id)
  \/ \E p \in SystemPlayers : CliOnNodeOfClassCreated(p, "n")
  \/ \E p \in SystemPlayers, id \in NodeIds : CliListenForChange(p, id, <<"gold">>)

SpecDuplicate == Init /\ [][DuplicateNext]_vars

\* An observer node that application code of identity p feeds from the
\* messages in flight to p: the snapshot of a create message builds it, or
\* is applied to it when it exists, and the patch of a state-update message
\* is applied to it.  Any message in flight is taken, and it stays in
\* flight: the messages reach the node in any order and any number of times.
MirrorReceive(p) ==
  /\ \E i \in 1..Len(relQ[p]) :
       LET message == relQ[p][i]
       IN  obs' = IF Has(message, "snapshot")
                    THEN IF obs = NoNode
                           THEN NewWisprNode(message.tokenId, message.snapshot)
                           ELSE WisprNodeApplySnapshot(obs, message.snapshot).node
                  ELSE IF Has(message, "patch") /\ obs # NoNode
                    THEN WisprNodeApplyPatch(obs, message.patch).node
                  ELSE obs
  /\ obs' # obs
  /\ UNCHANGED <<sysVars, treeVars, obsLast, obsSnap, obsCalls, obsDestroyed>>

\* The transport loses the oldest message in flight to p.
TransportLose(p) ==
  /\ relQ[p] # <<>>
  /\ relQ' = [relQ EXCEPT ![p] = Tail(@)]
  /\ UNCHANGED <<serverVars, resp, clientVars, obsVars, treeVars>>

\* One lifetime of a node: createNode registers it and destroyNode is never
\* called.  The server patches it, by the registry and on the node itself,
\* and the messages are delivered in order to the client registry, lost, or
\* handed to the observer node in any order.
LifetimeOps == {OpIncGold("none"), OpEmptyPath("none")}
LifetimeNext ==
  \/ \E id \in NodeIds : SrvCreateNode(id, ScopeAll, InitState) /\ NetOn(sLast'.sent)
  \/ \E id \in NodeIds, operation \in LifetimeOps :
        /\ Room(id, 1, MaxLifetimeVersion)
        /\ SrvPatchNode(id, operation)
        /\ NetOn(sLast'.sent)
  \/ \E id \in NodeIds, operations \in Batches(LifetimeOps, MaxOps) :
        /\ Room(id, Len(operations), MaxLifetimeVersion)
        /\ SrvPatchNodeMultiple(id, operations)
        /\ NetOn(sLast'.sent)
  \/ \E id \in NodeIds :
        /\ Room(id, 1, MaxLifetimeVersion)
        /\ SrvNodeSet(id, <<"gold">>, Num(50), "reliable")
        /\ NetOn(sLast'.sent)
  \/ \E p \in SystemPlayers : PlayerJoin(p)
  \/ \E p \in SystemPlayers : CliDeliver(p)
  \/ \E p \in SystemPlayers : CliRequestInitialData(p)
  \/ \E p \in SystemPlayers : CliReceiveInitialData(p)
  \/ \E p \in SystemPlayers : TransportLose(p)
  \/ \E p \in SystemPlayers : MirrorReceive(p)

SpecLifetime == Init /\ [][LifetimeNext]_vars

\* A client that restarts: the identity leaves and joins again, and each
\* new client registry bootstraps, against the one limiter of the server.
RetryNext ==
  \/ \E id \in NodeIds : SrvCreateNode(id, ScopeAll, InitState) /\ NetOn(sLast'.sent)
  \/ \E id \in NodeIds : SrvDestroyNode(id) /\ NetOn(sLast'.sent)
  \/ \E p \in SystemPlayers : PlayerJoin(p)
  \/ \E p \in SystemPlayers : PlayerLeave(p)
  \/ \E p \in SystemPlayers : CliDeliver(p)
  \/ \E p \in SystemPlayers : CliRequestInitialData(p)
  \/ \E p \in SystemPlayers : CliReceiveInitialData(p)

SpecRetry == Init /\ [][RetryNext]_vars

\* Bootstrap requests against a registry of two nodes: an identity that
\* asks more often than the limiter admits.
BootScopes == {ScopeAll, ScopePlayer("B")}

BootstrapNext ==
  \/ \E id \in TokenIds, scope \in BootScopes :
        SrvCreateNode(id, scope, InitState) /\ NetOff(sLast'.sent)
  \/ \E id \in TokenIds : SrvDestroyNode(id) /\ NetOff(sLast'.sent)
  \/ \E id \in TokenIds :
        /\ Room(id, 1, MaxBootVersion)
        /\ SrvPatchNode(id, OpIncGold("none"))
        /\ NetOff(sLast'.sent)
  \/ \E p \in {"A"} :
        /\ p \in connected
        /\ SrvHandleInitialDataRequest(p)
        /\ UNCHANGED <<relQ, resp, isInitialized, cLast>>
  \/ \E p \in {"A"} : PlayerJoin(p)

SpecBootstrap == Init /\ [][BootstrapNext]_vars

\* The rate limiter under a clock: calls of canRequest by each identity,
\* and tick() moving on between them.  sLast keeps, per identity, the
\* calls made so far with the time and the answer of each.
NoCalls == [p \in Players |-> <<>>]
CallsSoFar == IF sLast.call = "canRequest" THEN sLast.history ELSE NoCalls

LimCanRequest(p) ==
  LET r == canRequest(requestTimes[p], now)
      h == CallsSoFar
  IN  /\ Len(h["A"]) + Len(h["B"]) < MaxLimiterCalls
      /\ requestTimes' = [requestTimes EXCEPT ![p] = r.times]
      /\ sLast' = [call |-> "canRequest", identifier |-> p, allowed |-> r.allowed,
                   history |-> [h EXCEPT ![p] = Append(@, [time |-> now, allowed |-> r.allowed])]]
      /\ UNCHANGED <<sNodes, connected, now, issued, mirror, relQ, resp, clientVars, obsVars, treeVars>>

Tick ==
  /\ now + TickSeconds <= MaxNow
  /\ now' = now + TickSeconds
  /\ UNCHANGED <<sNodes, connected, requestTimes, issued, sLast, mirror, relQ, resp,
                 clientVars, obsVars, treeVars>>

LimiterNext ==
  \/ \E p \in Players : LimCanRequest(p)
  \/ Tick

SpecLimiter == Init /\ [][LimiterNext]_vars

\* The registry with a transport whose sends may raise.
FaultScopes == {ScopeAll, ScopePlayers(<<"A", "B">>)}
FaultOps == {OpIncGold("none")}

FaultNext ==
  \/ \E id \in NodeIds, scope \in FaultScopes, fault \in BOOLEAN :
        /\ CreateCall(id, scope, InitState, fault)
        /\ NetOff(sLast'.sent)
  \/ \E id \in NodeIds, fault \in BOOLEAN :
        /\ DestroyCall(id, fault)
        /\ NetOff(sLast'.sent)
  \/ \E id \in NodeIds, op \in FaultOps, fault \in BOOLEAN :
        /\ Room(id, 1, MaxFaultVersion)
        /\ PatchCallWith("patchNode", id, <<op>>, fault)
        /\ NetOff(sLast'.sent)
  \/ \E id \in NodeIds, ops \in Batches(FaultOps, MaxOps), fault \in BOOLEAN :
        /\ Room(id, Len(ops), MaxFaultVersion)
        /\ PatchCallWith("patchNodeMultiple", id, ops, fault)
        /\ NetOff(sLast'.sent)
  \/ \E p \in Players : PlayerJoin(p)
  \/ \E p \in Players : PlayerLeave(p)

SpecFault == Init /\ [][FaultNext]_vars

\* The server registry alone, with batches whose operations carry different
\* reliability tags.
ChannelOps == {OpIncGold("none"), OpIncGold("reliable"), OpSetGold("unreliable"), OpIncP("none")}
ChannelNext ==
  \/ RegistryNext(FALSE, FaultScopes, ChannelOps, Batches(ChannelOps, MaxOps), MaxChannelVersion)
  \/ \E p \in Players : PlayerJoin(p)
  \/ \E p \in Players : PlayerLeave(p)

SpecChannel == Init /\ [][ChannelNext]_vars

SpecNode == ObsInit /\ [][ObsNext]_vars

\* An observer node with subscriptions on a number and on a container, and
\* patches that change them, leave them as they are, or are skipped.
WatchOps == {OpIncGold("none"), OpSetGoldZero("none"), OpMapSetK("none"), OpIncP("none")}
WatchPatches ==
  {WisprPatch(id, v, ops) : id \in NodeIds, v \in 1..MaxWatchVersion, ops \in Batches(WatchOps, MaxOps)}
WatchedPaths == {<<"gold">>, <<"p">>}

WatchNext ==
  \/ \E patch \in WatchPatches : ObsApplyPatch(patch)
  \/ \E path \in WatchedPaths : ObsListenForChange(path)

SpecWatch == ObsInit /\ [][WatchNext]_vars

\* An observer node that is subscribed to, destroyed, and patched or given
\* a snapshot afterwards.
DestroyPatches ==
  {WisprPatch(id, v, ops) : id \in NodeIds, v \in 1..MaxDestroyVersion,
                            ops \in Batches({OpIncGold("none"), OpMapSetK("none")}, MaxOps)}
DestroyNext ==
  \/ \E patch \in DestroyPatches : ObsApplyPatch(patch)
  \/ \E snapshot \in ObsSnapshots : ObsApplySnapshot(snapshot)
  \/ \E path \in {<<"gold">>, <<"p", "k">>} : ObsListenForChange(path)
  \/ ObsListenForAnyChange
  \/ ObsListenForRawPatch
  \/ ObsDestroy

SpecDestroy == ObsInit /\ [][DestroyNext]_vars

\* The path functions and applyPatch called on a tree.
\* { gold: 0, p: 3 }
NumState == Tbl([gold |-> Num(0), p |-> Num(3)])
TreeTrees == {InitState, AltState, NumState}
TreePaths == {<<>>, <<"gold">>, <<"p", "k">>, <<"q", "0", "z">>, <<NegKey>>, <<"p", NegKey>>}
TreeValues == {Num(1), Str("c"), Tbl(EmptyTable)}
TreeOps ==
  {OpIncGold("none"), OpEmptyPath("none"), OpIncP("none"), OpMapSetK("none"),
   opSet(<<NegKey>>, Num(1), "none"),
   opListPush(<<"gold">>, Str("c"), "none"), opListPush(<<"items">>, Str("c"), "none"),
   opListInsert(<<"gold">>, 0, Str("c"), "none"), opListRemoveAt(<<"gold">>, 0, "none"),
   opMapSet(<<"gold">>, "k", Num(5), "none"), opMapDelete(<<"gold">>, "k", "none")}
TreePatches == {WisprPatch("n", 1, ops) : ops \in Batches(TreeOps, MaxOps)}

TreeInit ==
  /\ SysInit
  /\ NoObs
  /\ tree \in TreeTrees
  /\ treeLast = NoCall
  /\ treeCalls = 0

TreeNext ==
  \/ \E path \in TreePaths : TreeGet(path)
  \/ \E path \in TreePaths, value \in TreeValues : TreeSet(path, value)
  \/ \E path \in TreePaths : TreeDelete(path)
  \/ \E patch \in TreePatches : TreeApplyPatch(patch)

SpecTree == TreeInit /\ [][TreeNext]_vars

\* Map and list operations on containers that hold something.
\* { gold: 0, items: ["a", "b"], p: { j: 7 } }
MapState ==
  Tbl([gold |-> Num(0),
       items |-> Tbl([k \in {"0", "1"} |-> IF k = "0" THEN Str("a") ELSE Str("b")]),
       p |-> Tbl([k \in {"j"} |-> Num(7)])])
OpsOps ==
  {OpMapSetK("none"), opMapSet(<<"p">>, "j", Num(1), "none")}
    \cup {opListInsert(<<"items">>, i, Str("sword"), "none") : i \in 0..MaxListIndex}
    \cup {opListRemoveAt(<<"items">>, i, "none") : i \in 0..MaxListIndex}
OpsPatches == {WisprPatch("n", 1, ops) : ops \in Batches(OpsOps, MaxOps)}

OpsInit ==
  /\ SysInit
  /\ NoObs
  /\ tree \in {InitState, MapState}
  /\ treeLast = NoCall
  /\ treeCalls = 0

OpsNext ==
  \/ \E patch \in OpsPatches : TreeApplyPatch(patch)
  \/ \E path \in {<<"p", "k">>, <<"items">>} : TreeGet(path)

SpecOps == OpsInit /\ [][OpsNext]_vars

(***************************************************************************)
(* Properties of the observer node (checked under SpecNode)                *)
(***************************************************************************)
ObsPatchForNode == obsLast.call = "applyPatch" /\ obsLast.patch.tokenId = obsLast.pre.tokenId

\* C1: a patch of this node whose version is less than or equal to the
\* node's version is rejected (applyPatch returns false): the state and the
\* version stay exactly as they were and no raw-patch, path or any-change
\* notification is fired.
C1_StalePatchIsNoOp ==
  (ObsPatchForNode /\ obsLast.patch.version <= obsLast.pre.version)
    => /\ obsLast.result = "rejected"
       /\ obs.state = obsLast.pre.state
       /\ obs.version = obsLast.pre.version
       /\ obsLast.fired = NoFired

\* A patch of the node's own version, with operations that would change
\* the state, was delivered to a node with all three kinds of listeners.
C1_Witness ==
  /\ ObsPatchForNode
  /\ obsLast.patch.version = obsLast.pre.version
  /\ obsLast.patch.operations = <<OpIncGold("none")>>
  /\ obsLast.pre.rawListener /\ obsLast.pre.anyListener
  /\ obsLast.pre.changeSignals # {}
  /\ obsLast.result = "rejected"

\* C4: a patch with version v1+1 delivered to a node at version v1 is
\* applied whole and leaves the node at version v1+1; delivering the same
\* patch a second time is rejected by the version gate and changes neither
\* the state nor the version.
C4_NextVersionAppliedOnce ==
  /\ (ObsPatchForNode /\ obsLast.patch.version = obsLast.pre.version + 1)
       => (obsLast.result = "applied" /\ obs.version = obsLast.pre.version + 1)
  /\ (ObsPatchForNode /\ obsLast.redelivery
        /\ obsLast.patch.version = obsLast.first.pre.version + 1)
       => /\ obsLast.result = "rejected"
          /\ obs.state = obsLast.pre.state
          /\ obs.version = obsLast.pre.version

\* C5: as long as no patch with a version greater than s has been delivered
\* since the node took a snapshot of version s, the node's state and
\* version are the snapshot's: every patch of version <= s is rejected.
C5_SnapshotSupersedes ==
  ~obsSnap.higher => (obs.state = obsSnap.data /\ obs.version = obsSnap.version)

\* applySnapshot lowered or kept the version, then a patch of a version
\* <= s was delivered and rejected.
C5_Witness ==
  /\ obsSnap.applied /\ ~obsSnap.higher
  /\ ObsPatchForNode
  /\ obsLast.patch.version <= obsSnap.version
  /\ obsLast.patch.operations = <<OpSetGold("none")>>
  /\ obsLast.result = "rejected"
  /\ obs.state = obsSnap.data

(***************************************************************************)
(* Properties of the server registry (SpecServer)                          *)
(***************************************************************************)
BroadcastCalls == {"createNode", "destroyNode", "patchNode", "patchNodeMultiple"}
PatchCalls == {"patchNode", "patchNodeMultiple"}
NodeCalls == {"node.set", "node.increment", "node.delete", "node.insert", "node.remove"}

\* The identities a scope names; All names every identity.
ScopeMembers(scope) ==
  IF scope.kind = "all" THEN Players
  ELSE IF scope.kind = "player" THEN {scope.player}
  ELSE {scope.players[i] : i \in 1..Len(scope.players)}

\* How many of the sends went to identity p.
SentTo(sent, p) == Cardinality({i \in 1..Len(sent) : sent[i].to = p})

\* C6: no create, patch or destroy message is sent to an identity outside
\* the node's scope (Single(A): only to A; Set(S): only to members of S),
\* and a bootstrap response holds create messages only for nodes whose
\* scope includes the requester.
C6_NothingLeavesScope ==
  /\ sLast.call \in BroadcastCalls =>
       \A i \in 1..Len(sLast.sent) : sLast.sent[i].to \in ScopeMembers(sLast.scope)
  /\ sLast.call = "handleInitialDataRequest" =>
       \A i \in 1..Len(sLast.response) :
         LET id == sLast.response[i].tokenId
         IN  /\ id \in NodeIds
             /\ sNodes[id] # NoNode
             /\ sLast.player \in ScopeMembers(sNodes[id].scope)

\* A patch of a node scoped to B alone, sent while A and B are both
\* connected, goes to B and nobody else.
C6_Witness ==
  /\ sLast.call = "patchNode"
  /\ ~sLast.raised
  /\ sLast.scope = ScopePlayer("B")
  /\ sLast.conn = {"A", "B"}
  /\ Len(sLast.sent) = 1
  /\ sLast.sent[1].to = "B"

\* C7: with scope All a create, patch or destroy message is sent to every
\* identity connected at the time of the send; with scope Set(S) it is sent
\* once to each member of S individually.
C7_ScopeFanOut ==
  (sLast.call \in BroadcastCalls /\ ~sLast.raised /\ sLast.scope # NoCall) =>
    /\ sLast.scope.kind = "all" =>
         \A p \in Players : SentTo(sLast.sent, p) = IF p \in sLast.conn THEN 1 ELSE 0
    /\ sLast.scope.kind = "players" =>
         \A p \in Players : SentTo(sLast.sent, p) = IF p \in ScopeMembers(sLast.scope) THEN 1 ELSE 0

\* The channel a reliability names; an absent reliability is reliable.
ChannelNamed(reliability) == IF reliability = "unreliable" THEN "unreliable" ELSE "reliable"

\* C8: a successful set / increment / delete / insert / remove on a server
\* node results in a patch message carrying the operation, sent to every
\* connected identity in the node's scope on the channel its reliability
\* names.
C8_NodeMutationIsBroadcast ==
  (sLast.call \in NodeCalls /\ ~sLast.raised) =>
    \A p \in sLast.conn \cap ScopeMembers(sLast.scope) :
      \E i \in 1..Len(sLast.sent) :
        /\ sLast.sent[i].to = p
        /\ sLast.sent[i].channel = ChannelNamed(sLast.ops[1].reliability)
        /\ Has(sLast.sent[i].message, "patch")
        /\ sLast.sent[i].message.patch.operations = sLast.ops

\* C9 as stated: every successful patchNode / patchNodeMultiple issues a
\* patch whose version is exactly one more than that of the patch issued
\* before it for the node (one for the first), however many operations the
\* batch has.
C9_PatchVersionStepsByOne ==
  (sLast.call \in PatchCalls /\ ~sLast.raised) =>
    sLast.patch.version = sLast.prevIssued + 1

\* C9 amended: the version of the patch exceeds that of the patch issued
\* before it for the node (0 when none) by at least the number of operations
\* in the batch, and by exactly that number when nothing else advanced the
\* node's version in between; so by exactly one only for one operation.
C9_PatchVersionStepsByBatchSize ==
  (sLast.call \in PatchCalls /\ ~sLast.raised) =>
    /\ sLast.patch.version >= sLast.prevIssued + Len(sLast.ops)
    /\ sLast.preVersion = sLast.prevIssued =>
         sLast.patch.version = sLast.prevIssued + Len(sLast.ops)

\* A batch of two operations issued as the node's first patch carries
\* version 2.
C9_Witness ==
  /\ sLast.call = "patchNodeMultiple"
  /\ ~sLast.raised
  /\ Len(sLast.ops) = 2
  /\ sLast.prevIssued = 0
  /\ sLast.preVersion = 0
  /\ sLast.patch.version = 2

\* C10: a successful patchNodeMultiple with k operations on a node at
\* version v leaves the node at version v + k, and the one patch it
\* broadcasts carries all k operations and version v + k.
C10_BatchAdvancesByK ==
  (sLast.call = "patchNodeMultiple" /\ ~sLast.raised) =>
    /\ sLast.postVersion = sLast.preVersion + Len(sLast.ops)
    /\ sNodes[sLast.tokenId].version = sLast.postVersion
    /\ sLast.patch.version = sLast.preVersion + Len(sLast.ops)
    /\ sLast.patch.operations = sLast.ops
    /\ \A i \in 1..Len(sLast.sent) : sLast.sent[i].message = StateUpdateMessage(sLast.patch)

\* A batch of two on a node scoped to everyone, one identity connected.
C10_Witness ==
  /\ sLast.call = "patchNodeMultiple"
  /\ ~sLast.raised
  /\ Len(sLast.ops) = 2
  /\ sLast.postVersion = sLast.preVersion + 2
  /\ sLast.scope = ScopeAll
  /\ Len(sLast.sent) = 1

\* A step that is a call on the server (only those write sLast).
ServerCallStep == sLast' # sLast

\* C11: createNode with an id that is registered raises and has no other
\* effect: the registered node keeps state, version and scope, the registry
\* is unchanged and no create message is sent.
C11_DuplicateCreateRaises ==
  [][(ServerCallStep /\ sLast'.call = "createNode" /\ sNodes[sLast'.tokenId] # NoNode) =>
       /\ sLast'.raised
       /\ sLast'.sent = <<>>
       /\ sNodes' = sNodes
       /\ issued' = issued]_vars

\* A second createNode on a node that was patched to version 1 meanwhile.
C11_Witness ==
  /\ sLast.call = "createNode"
  /\ sLast.existed
  /\ sLast.raised
  /\ sLast.preVersion = 1
  /\ sNodes[sLast.tokenId].version = 1
  /\ sLast.conn # {}

\* C12: patchNode and patchNodeMultiple on an id that was never created, or
\* was destroyed and not created again, raise, send no message on either
\* channel, and neither create nor change any node.
C12_PatchOfAbsentNodeRaises ==
  [][(ServerCallStep /\ sLast'.call \in PatchCalls /\ sNodes[sLast'.tokenId] = NoNode) =>
       /\ sLast'.raised
       /\ sLast'.sent = <<>>
       /\ sNodes' = sNodes
       /\ issued' = issued]_vars

\* patchNodeMultiple on an id that was created, patched and destroyed.
C12_Witness ==
  /\ sLast.call = "patchNodeMultiple"
  /\ ~sLast.existed
  /\ sLast.raised
  /\ sLast.prevIssued > 0
  /\ Len(sLast.ops) = 2
  /\ sNodes[sLast.tokenId] = NoNode
  /\ sLast.conn # {}

\* C13: destroyNode on an absent id is a silent no-op (it does not raise,
\* sends nothing and leaves the registry as it was); every destroyNode that
\* returns leaves the id absent, so of two calls in a row only the first
\* sends the destroy message and the registry after both is the registry
\* after the first.
C13_DestroyIsIdempotent ==
  [][(ServerCallStep /\ sLast'.call = "destroyNode") =>
       /\ ~sLast'.raised
       /\ sNodes'[sLast'.tokenId] = NoNode
       /\ \A id \in NodeIds \ {sLast'.tokenId} : sNodes'[id] = sNodes[id]
       /\ sNodes[sLast'.tokenId] = NoNode => sLast'.sent = <<>> /\ sNodes' = sNodes
       /\ (sLast.call = "destroyNode" /\ sLast.tokenId = sLast'.tokenId) =>
            sLast'.sent = <<>> /\ sNodes' = sNodes]_vars

\* destroyNode on an id that was created, patched and destroyed before,
\* with somebody connected to send to.
C13_Witness ==
  /\ sLast.call = "destroyNode"
  /\ ~sLast.existed
  /\ sLast.prevIssued > 0
  /\ sLast.sent = <<>>
  /\ sLast.conn = Players

\* The local effect a call has committed when it returns.
Committed ==
  LET id == sLast.tokenId
  IN  /\ sLast.call = "createNode" => sNodes[id] # NoNode /\ sNodes[id].version = 0
      /\ sLast.call \in PatchCalls =>
           /\ sNodes[id] # NoNode
           /\ sNodes[id].version = sLast.preVersion + Len(sLast.ops)
           /\ getValueAtPath(sNodes[id].state, <<"gold">>) = Num(100 * sNodes[id].version)
      /\ sLast.call = "destroyNode" => sNodes[id] = NoNode

\* C14: when a transport send raises during createNode, patchNode,
\* patchNodeMultiple or destroyNode, the caller sees no error and the local
\* mutation stays committed.
C14_SendFailureKeepsMutation ==
  (sLast.call \in BroadcastCalls /\ sLast.sendRaised) => ~sLast.raised /\ Committed

\* The three calls that wrap their broadcast in a try keep what C14 says.
C14_CaughtWhereWrapped ==
  (sLast.call \in BroadcastCalls \ {"destroyNode"} /\ sLast.sendRaised) =>
    ~sLast.raised /\ Committed

\* C15: when patchNode or patchNodeMultiple raises on an operation that
\* violates the caller's contract, the node's state and version are as they
\* were before the call and nothing is broadcast, also when the invalid
\* operation is not the first of its batch.
C15_RaisedPatchChangesNothing ==
  [][(ServerCallStep /\ sLast'.call \in PatchCalls /\ sLast'.raised) =>
       sNodes' = sNodes /\ sLast'.sent = <<>>]_vars

\* A raising patchNode, and a raising batch whose first operation is the
\* invalid one, do leave the node as it was.
C15_FirstOperationRaising ==
  [][(/\ ServerCallStep
      /\ sLast'.call \in PatchCalls
      /\ sLast'.raised
      /\ sLast'.ops # <<>> => applyPatchOperation(InitState, sLast'.ops[1]).err) =>
       sNodes' = sNodes /\ sLast'.sent = <<>>]_vars

\* The calls of identity p before its k-th that fall in the window of the
\* k-th, i.e. were made less than windowSeconds before it.
InWindow(h, k) == {i \in 1..(k - 1) : h[i].time > h[k].time - windowSeconds}

\* C16: with maxRequests = 5 and windowSeconds = 10, a canRequest call of an
\* identity returns true when fewer than 5 of its calls fall in the window
\* (the first five, and any call after the window has elapsed), and false
\* when 5 admitted calls fall in the window (the sixth inside it).
C16_SlidingWindow ==
  sLast.call = "canRequest" =>
    \A p \in Players : \A k \in 1..Len(sLast.history[p]) :
      LET h == sLast.history[p]
      IN  /\ Cardinality(InWindow(h, k)) < maxRequests => h[k].allowed
          /\ Cardinality({i \in InWindow(h, k) : h[i].allowed}) >= maxRequests => ~h[k].allowed
          /\ InWindow(h, k) = {} => h[k].allowed

\* Five calls admitted, a sixth inside the window denied, a seventh after
\* the window admitted.
C16_Witness ==
  /\ sLast.call = "canRequest"
  /\ \E p \in Players :
       LET h == sLast.history[p]
       IN  /\ Len(h) = 7
           /\ \A i \in 1..5 : h[i].allowed /\ h[i].time < h[1].time + windowSeconds
           /\ ~h[6].allowed
           /\ h[6].time < h[1].time + windowSeconds
           /\ h[7].allowed
           /\ h[7].time >= h[5].time + windowSeconds

\* C17: handleInitialDataRequest asks the rate limiter first; when it is
\* denied the call returns the empty array without raising, takes no
\* snapshot and changes no node's state or version.
C17_DeniedRequestReturnsEmpty ==
  [][(ServerCallStep /\ sLast'.call = "handleInitialDataRequest" /\ ~sLast'.allowed) =>
       /\ sLast'.response = <<>>
       /\ sNodes' = sNodes
       /\ requestTimes' = requestTimes]_vars

\* A denied request while a node the identity should see is registered.
C17_Witness ==
  /\ sLast.call = "handleInitialDataRequest"
  /\ ~sLast.allowed
  /\ sLast.response = <<>>
  /\ Len(requestTimes[sLast.player]) = maxRequests
  /\ \E id \in TokenIds :
       /\ sNodes[id] # NoNode
       /\ sNodes[id].version = 1
       /\ sLast.player \in ScopeMembers(sNodes[id].scope)

\* The create messages for id in a response.
MessagesFor(response, id) == {i \in 1..Len(response) : response[i].tokenId = id}

\* C19: an admitted handleInitialDataRequest returns one create message for
\* each registered node whose scope has the requesting identity, and none
\* for any other id; each snapshot carries the state and the version the
\* node has at the time of the call.
C19_BootstrapIsExact ==
  (sLast.call = "handleInitialDataRequest" /\ sLast.allowed) =>
    \A id \in TokenIds :
      LET at == MessagesFor(sLast.response, id)
          due == sNodes[id] # NoNode /\ sLast.player \in ScopeMembers(sNodes[id].scope)
      IN  /\ Cardinality(at) = IF due THEN 1 ELSE 0
          /\ \A i \in at :
               /\ sLast.response[i].snapshot.version = sNodes[id].version
               /\ sLast.response[i].snapshot.data = sNodes[id].state
               /\ sLast.response[i].snapshot.tokenId = id

\* An admitted request with one node in scope at version 1 and one node
\* registered out of scope.
C19_Witness ==
  /\ sLast.call = "handleInitialDataRequest"
  /\ sLast.allowed
  /\ Len(sLast.response) = 1
  /\ sLast.response[1].snapshot.version = 1
  /\ \A id \in TokenIds : sNodes[id] # NoNode
  /\ \E id \in TokenIds : sLast.player \notin ScopeMembers(sNodes[id].scope)

\* C18: after requestInitialData received the empty array of a request the
\* limiter refused, a later requestInitialData call of the same observer
\* sends a new request.
C18_RetryAfterDenialSendsRequest ==
  [][(/\ cLast.call = "receiveInitialData"
      /\ cLast.denied
      /\ cLast'.call = "requestInitialData"
      /\ cLast'.player = cLast.player) => cLast'.sent]_vars

\* A call of requestInitialData by a registry whose bootstrap was admitted
\* is the case the early return is written for.
C18_AdmittedBootstrapIsFinal ==
  [][(/\ cLast.call = "receiveInitialData"
      /\ ~cLast.denied
      /\ isInitialized[cLast.player]
      /\ cLast'.call = "requestInitialData"
      /\ cLast'.player = cLast.player) => ~cLast'.sent]_vars

\* The promises pending on id in the registry of p.
Pending(p, id) == {nodeWaiters[p][id][k] : k \in 1..Len(nodeWaiters[p][id])}

\* C20: waitForNode(id) returns the node at once when id is materialized;
\* otherwise its waiter stays pending while id is absent, the create message
\* that materializes id resolves every pending waiter of id with the node it
\* registers, and no promise is resolved a second time by any later create,
\* patch or destroy message.
C20_WaitersResolvedOnce ==
  [][\A p \in SystemPlayers, id \in TokenIds :
       /\ \A w \in Waiters : Len(resolved'[p][w]) <= 1
       /\ Pending(p, id)' # {} => cNodes'[p][id] = NoNode
       /\ \A w \in Pending(p, id) :
            /\ resolved[p][w] = <<>>
            /\ cNodes'[p][id] # NoNode =>
                 resolved'[p][w] = <<[node |-> cNodes'[p][id], how |-> "create"]>>
            /\ cNodes'[p][id] = NoNode => w \in Pending(p, id)' /\ resolved'[p][w] = <<>>
       /\ (cLast' # cLast /\ cLast'.call = "waitForNode" /\ cLast'.player = p
             /\ cLast'.tokenId = id /\ cNodes[p][id] # NoNode) =>
            \E w \in Waiters :
              /\ resolved[p][w] = <<>>
              /\ resolved'[p][w] = <<[node |-> cNodes[p][id], how |-> "immediate"]>>]_vars

\* Two waiters of the same id resolved by its create message, and the node
\* destroyed on the client afterwards.
C20_Witness ==
  /\ \A w \in Waiters : Len(resolved["A"][w]) = 1 /\ resolved["A"][w][1].how = "create"
  /\ resolved["A"][1] = resolved["A"][2]
  /\ cNodes["A"]["n"] = NoNode
  /\ cLast.call = "deliver"

\* A step in which the client of p handles the next message in flight.
DeliverStep(p) ==
  /\ p \in connected
  /\ connected' = connected
  /\ relQ[p] # <<>>
  /\ relQ'[p] = Tail(relQ[p])

\* A step in which onNodeOfClassCreated registers a callback for p.
SubscribeStep(p) == connected' = connected /\ subs'[p] # subs[p]

Listening(L, s) == \E q \in Patterns : \E i \in 1..Len(L[q]) : L[q][i] = s
TimesNotified(notified, s, id) ==
  Cardinality({i \in 1..Len(notified) : notified[i].sub = s /\ notified[i].tokenId = id})

\* What a delivery owes the callbacks: nothing to a callback that is not
\* listening or whose pattern is not a prefix of the id, nothing when the
\* message does not materialize a new node, and one invocation with the id
\* to every callback in among that matches when it does.
DeliveryNotifies(p, among) ==
  LET id == Head(relQ[p]).tokenId
      new == cNodes[p][id] = NoNode /\ cNodes'[p][id] # NoNode
      n == cLast'.notified
  IN  /\ \A i \in 1..Len(n) :
           /\ n[i].tokenId = id
           /\ new
           /\ Listening(patternListeners[p], n[i].sub)
           /\ StartsWith(id, subs[p][n[i].sub])
      /\ \A s \in Subs : TimesNotified(n, s, id) <= 1
      /\ \A s \in among :
           (new /\ Listening(patternListeners[p], s) /\ StartsWith(id, subs[p][s])) =>
             TimesNotified(n, s, id) = 1

\* What onNodeOfClassCreated owes the new callback: one invocation for
\* each node there is whose id starts with the pattern, and no other.
SubscriptionNotifies(p) ==
  LET n == cLast'.notified
  IN  \A s \in Subs : \A id \in TokenIds :
        TimesNotified(n, s, id) =
          IF subs[p][s] = "none" /\ subs'[p][s] # "none"
               /\ cNodes[p][id] # NoNode /\ StartsWith(id, subs'[p][s])
            THEN 1 ELSE 0

\* C21: a prefix subscription's callback is invoked once for each node
\* materialized at subscribe time whose id starts with the prefix and once
\* for each later create message that materializes such a node, never for
\* another id and never once it is cancelled.
C21_PrefixSubscription ==
  [][\A p \in SystemPlayers :
       /\ SubscribeStep(p) => SubscriptionNotifies(p)
       /\ DeliverStep(p) =>
            DeliveryNotifies(p, {s \in Subs : Listening(patternListeners'[p], s)})]_vars

\* The same with callbacks that cancel nothing while they run.
C21_WithoutCancelInCallback ==
  [][\A p \in SystemPlayers :
       /\ SubscribeStep(p) => SubscriptionNotifies(p)
       /\ (DeliverStep(p) /\ cLast'.script = NoScript) =>
            DeliveryNotifies(p, {s \in Subs : Listening(patternListeners'[p], s)})]_vars

\* The callbacks whose disconnect function a step calls.
Cancelled(p) ==
  IF DeliverStep(p)
    THEN {cLast'.script[cLast'.notified[i].sub] : i \in 1..Len(cLast'.notified)} \ {0}
  ELSE IF cLast' # cLast /\ cLast'.call = "disconnect" /\ cLast'.player = p
    THEN {cLast'.sub}
  ELSE {}

\* C22: cancelling one prefix subscription, at any point and also from
\* inside a callback that runs during a dispatch, removes that callback and
\* no other: every other subscriber keeps listening and is invoked once for
\* that create.
C22_CancelRemovesOnlyThatCallback ==
  [][\A p \in SystemPlayers :
       connected' = connected =>
         /\ \A s \in Subs \ Cancelled(p) :
              Listening(patternListeners[p], s) => Listening(patternListeners'[p], s)
         /\ \A s \in Cancelled(p) : ~Listening(patternListeners'[p], s)
         /\ DeliverStep(p) => DeliveryNotifies(p, Subs \ Cancelled(p))]_vars

\* Cancelling outside a dispatch does what C22 says.
C22_CancelOutsideDispatch ==
  [][\A p \in SystemPlayers :
       (connected' = connected /\ (DeliverStep(p) => cLast'.script = NoScript)) =>
         /\ \A s \in Subs \ Cancelled(p) :
              Listening(patternListeners[p], s) => Listening(patternListeners'[p], s)
         /\ \A s \in Cancelled(p) : ~Listening(patternListeners'[p], s)
         /\ DeliverStep(p) => DeliveryNotifies(p, Subs \ Cancelled(p))]_vars

\* C23: a create message for an id that has an observer node keeps that
\* node with its change subscriptions, gives it the state and the version
\* of the message's snapshot, and invokes no waiter and no prefix callback.
C23_DuplicateCreateIsSnapshotApply ==
  [][\A p \in SystemPlayers :
       (/\ DeliverStep(p)
        /\ Dispatch(Head(relQ[p])) = "create"
        /\ cNodes[p][Head(relQ[p]).tokenId] # NoNode) =>
         LET message == Head(relQ[p])
             id == message.tokenId
         IN  /\ cNodes'[p][id] # NoNode
             /\ cNodes'[p][id].state = message.snapshot.data
             /\ cNodes'[p][id].version = message.snapshot.version
             /\ cNodes'[p][id].changeSignals = cNodes[p][id].changeSignals
             /\ cNodes'[p][id].anyListener = cNodes[p][id].anyListener
             /\ cNodes'[p][id].rawListener = cNodes[p][id].rawListener
             /\ nodeWaiters' = nodeWaiters
             /\ resolved' = resolved
             /\ cLast'.notified = <<>>
             /\ patternListeners' = patternListeners]_vars

\* The broadcast create of version 0 delivered to a node that the bootstrap
\* made at version 1, with a change subscription and a prefix subscription.
C23_Witness ==
  /\ cLast.call = "deliver"
  /\ cLast.dispatch = "create"
  /\ cLast.held
  /\ cLast.message.snapshot.version = 0
  /\ sNodes["n"] # NoNode
  /\ sNodes["n"].version = 1
  /\ cNodes["A"]["n"] # NoNode
  /\ cNodes["A"]["n"].version = 0
  /\ cNodes["A"]["n"].changeSignals # {}
  /\ Listening(patternListeners["A"], 1)
  /\ isInitialized["A"]

\* C24: with an any-change subscription connected, a patch the node applies
\* fires it once, however many operations the patch has, and a patch the
\* version gate rejects fires it not at all.
C24_AnyChangeOncePerAppliedPatch ==
  (/\ obsLast.call = "applyPatch"
   /\ obsLast.patch.tokenId = obsLast.pre.tokenId
   /\ obsLast.pre.anyListener) =>
     /\ obsLast.result = "applied" => obsLast.fired.any = 1
     /\ obsLast.patch.version <= obsLast.pre.version =>
          obsLast.result = "rejected" /\ obsLast.fired.any = 0

\* A patch of two operations applied to a node with an any-change listener.
C24_Witness ==
  /\ obsLast.call = "applyPatch"
  /\ obsLast.pre.anyListener
  /\ obsLast.result = "applied"
  /\ Len(obsLast.patch.operations) = 2
  /\ obsLast.fired.any = 1

\* A patch of the node's own version, rejected, with the listener connected.
C24_RejectedReached ==
  /\ obsLast.call = "applyPatch"
  /\ obsLast.pre.anyListener
  /\ obsLast.patch.version = obsLast.pre.version
  /\ obsLast.result = "rejected"

\* C25: every call of a path subscription during applyPatch is for a path
\* that an operation of the patch touches and whose value after the patch
\* differs from its value before, and passes (new value, old value); so a
\* patch that leaves the value at the path as it was calls nothing.
C25_PathFiresOnlyOnChange ==
  (obsLast.call = "applyPatch" /\ obsLast.result = "applied") =>
    \A i \in 1..Len(obsLast.fired.paths) :
      LET f == obsLast.fired.paths[i]
          after == getValueAtPath(obs.state, f.path)
          before == getValueAtPath(obsLast.pre.state, f.path)
      IN  /\ \E k \in 1..Len(obsLast.patch.operations) :
               TouchedPath(obsLast.patch.operations[k]) = f.path
          /\ pathToKey(f.path) \in obsLast.pre.changeSignals
          /\ f.new = after
          /\ f.old = before
          /\ after # before

\* The same for the calls whose values are not both containers.
C25_ScalarPathFiresOnlyOnChange ==
  (obsLast.call = "applyPatch" /\ obsLast.result = "applied") =>
    \A i \in 1..Len(obsLast.fired.paths) :
      LET f == obsLast.fired.paths[i]
          after == getValueAtPath(obs.state, f.path)
          before == getValueAtPath(obsLast.pre.state, f.path)
      IN  (~(IsTable(after) /\ IsTable(before))) =>
            /\ f.new = after
            /\ f.old = before
            /\ after # before

\* A patch that sets gold to the value it has calls nothing on gold.
C25_EqualScalarReached ==
  /\ obsLast.call = "applyPatch"
  /\ obsLast.result = "applied"
  /\ pathToKey(<<"gold">>) \in obsLast.pre.changeSignals
  /\ obsLast.patch.operations = <<OpSetGoldZero("none")>>
  /\ obsLast.pre.state = obs.state
  /\ obsLast.fired.paths = <<>>

\* C26: destroy leaves the node without any path, any-change or raw-patch
\* subscription and with its state and version, so that an applyPatch or
\* applySnapshot after it, with no subscription made since, calls nothing;
\* a destroy of a node already destroyed changes nothing.
NoListener(node) == node.changeSignals = {} /\ ~node.anyListener /\ ~node.rawListener
C26_DestroyDisconnectsAll ==
  [][/\ (obsLast'.call = "destroy" /\ obsLast' # obsLast) =>
          /\ obsDestroyed'
          /\ NoListener(obs')
          /\ obs'.state = obs.state /\ obs'.version = obs.version
          /\ obsDestroyed => obs' = obs
     /\ (obsDestroyed' /\ obsLast'.call \in {"applyPatch", "applySnapshot"}) =>
          /\ obsLast'.fired.raw = 0
          /\ obsLast'.fired.any = 0
          /\ obsLast'.fired.paths = <<>>]_vars

\* A patch applied after the destroy of a node that had all three kinds of
\* subscription: the value a path subscription watched changed.
C26_Witness ==
  /\ obsDestroyed
  /\ obsLast.call = "applyPatch"
  /\ obsLast.result = "applied"
  /\ obsCalls = 1
  /\ getValueAtPath(obs.state, <<"gold">>) # getValueAtPath(obsLast.pre.state, <<"gold">>)
  /\ obsLast.fired = NoFired

\* The destroy of a node with all three kinds of subscription.
C26_DestroyReached ==
  /\ obsLast.call = "destroy"
  /\ obsLast.pre.changeSignals = {<<"gold">>, <<"p", "k">>}
  /\ obsLast.pre.anyListener
  /\ obsLast.pre.rawListener
  /\ NoListener(obs)

\* A second destroy in a row.
C26_SecondDestroyReached == obsLast.call = "destroy" /\ obsLast.destroyed

\* The state after the operations from i on, each applied in its turn and
\* one that raises left out.
RECURSIVE ApplyIsolated(_, _, _)
ApplyIsolated(state, operations, i) ==
  IF i > Len(operations) THEN state
  ELSE ApplyIsolated(applyPatchOperation(state, operations[i]).state, operations, i + 1)

\* C27: applyPatch applies the operations in array order, and an operation
\* that raises does not keep the operations after it from being applied.
C27_FailingOperationIsIsolated ==
  treeLast.call = "applyPatch" =>
    tree = ApplyIsolated(treeLast.pre, treeLast.patch.operations, 1)

\* The same for the patches none of whose operations raises.
C27_OrderWithoutFailure ==
  (treeLast.call = "applyPatch" /\ ~treeLast.raised) =>
    tree = ApplyIsolated(treeLast.pre, treeLast.patch.operations, 1)

\* Two operations whose order shows: push on items, then a map set on the
\* same container, or the other way round.
C27_OrderReached ==
  /\ treeLast.call = "applyPatch"
  /\ ~treeLast.raised
  /\ Len(treeLast.patch.operations) = 2
  /\ tree # treeLast.pre
  /\ tree # applyPatch(treeLast.pre,
                       WisprPatch("n", 1, <<treeLast.patch.operations[2],
                                            treeLast.patch.operations[1]>>)).state

\* The target of the operation has the wrong shape in the state: no number
\* to increment, no container for a list operation, no container at
\* pathToMap for a map operation.
WrongShape(state, operation) ==
  IF operation.type = "increment"
    THEN isValidPath(operation.path) /\ ~IsNumber(getValueAtPath(state, operation.path))
  ELSE IF operation.type \in {"listPush", "listInsert", "listRemoveAt"}
    THEN isValidPath(operation.path) /\ ~IsTable(getValueAtPath(state, operation.path))
  ELSE IF operation.type \in {"mapSet", "mapDelete"}
    THEN isValidPath(operation.pathToMap) /\ ~IsTable(getValueAtPath(state, operation.pathToMap))
  ELSE FALSE

\* C28: an operation of a patch whose target has the wrong shape when its
\* turn comes leaves the tree as it is and raises nothing, and the
\* operations after it are applied as they are without it.
C28_WrongShapeIsSkipped ==
  treeLast.call = "applyPatch" =>
    LET operations == treeLast.patch.operations
        n == Len(operations)
    IN  \A k \in 1..n :
          LET before == ApplyFrom(treeLast.pre, SubSeq(operations, 1, k - 1), 1)
              rest == ApplyFrom(before.state, SubSeq(operations, k + 1, n), 1)
          IN  (~before.err /\ WrongShape(before.state, operations[k])) =>
                /\ applyPatchOperation(before.state, operations[k]) = Done(before.state)
                /\ tree = rest.state
                /\ treeLast.raised = rest.err

\* A list push on the number gold, skipped, and the increment after it
\* applied.
C28_Witness ==
  /\ treeLast.call = "applyPatch"
  /\ treeLast.pre \in {InitState, NumState}
  /\ Len(treeLast.patch.operations) = 2
  /\ treeLast.patch.operations[1].type = "listPush"
  /\ WrongShape(treeLast.pre, treeLast.patch.operations[1])
  /\ treeLast.patch.operations[2] = OpIncGold("none")
  /\ ~treeLast.raised
  /\ getValueAtPath(tree, <<"gold">>) = Num(100)

\* A path with a negative integer key.
HasNegativeKey(path) == \E i \in 1..Len(path) : path[i] = NegKey

\* The path of the only operation of the patch of the last call.
OnlyOperationPath ==
  IF treeLast.patch.operations[1].type \in {"mapSet", "mapDelete"}
    THEN treeLast.patch.operations[1].pathToMap
    ELSE treeLast.patch.operations[1].path

\* C29: getValueAtPath, setValueAtPath, deleteValueAtPath and a patch
\* operation given a path that is empty or has a negative integer key raise
\* and leave the tree as it was.
C29_BadPathIsRejected ==
  /\ (/\ treeLast.call \in {"getValueAtPath", "setValueAtPath", "deleteValueAtPath"}
      /\ (Len(treeLast.path) = 0 \/ HasNegativeKey(treeLast.path))) =>
        treeLast.raised /\ tree = treeLast.pre
  /\ (/\ treeLast.call = "applyPatch"
      /\ Len(treeLast.patch.operations) = 1
      /\ (Len(OnlyOperationPath) = 0 \/ HasNegativeKey(OnlyOperationPath))) =>
        treeLast.raised /\ tree = treeLast.pre

\* The same for the empty path alone.
C29_EmptyPathIsRejected ==
  /\ (/\ treeLast.call \in {"getValueAtPath", "setValueAtPath", "deleteValueAtPath"}
      /\ Len(treeLast.path) = 0) =>
        treeLast.raised /\ tree = treeLast.pre
  /\ (/\ treeLast.call = "applyPatch"
      /\ Len(treeLast.patch.operations) = 1
      /\ Len(OnlyOperationPath) = 0) =>
        treeLast.raised /\ tree = treeLast.pre

\* A set on the empty path, raised.
C29_EmptyPathReached ==
  /\ treeLast.call = "setValueAtPath"
  /\ treeLast.path = <<>>
  /\ treeLast.raised

\* A set on a path with a negative key that went through and changed the
\* tree.
C29_NegativeKeyWritten ==
  /\ treeLast.call = "setValueAtPath"
  /\ HasNegativeKey(treeLast.path)
  /\ ~treeLast.raised
  /\ tree # treeLast.pre

\* C30: getValueAtPath on a path right after setValueAtPath of a value on
\* that path returns the value, also when the set had to put a new container
\* where an intermediate key was missing or held something else.
C30_GetAfterSet ==
  (/\ treeLast.call = "getValueAtPath"
   /\ treeLast.prev.call = "setValueAtPath"
   /\ treeLast.prev.path = treeLast.path
   /\ ~treeLast.prev.raised) =>
     /\ ~treeLast.raised
     /\ treeLast.value = treeLast.prev.value

\* The set replaced the number at p by a container to hold the key k.
C30_Witness ==
  /\ treeLast.call = "getValueAtPath"
  /\ treeLast.prev.call = "setValueAtPath"
  /\ treeLast.path = <<"p", "k">>
  /\ treeLast.prev.path = <<"p", "k">>
  /\ treeLast.prev.pre = NumState
  /\ treeLast.value = treeLast.prev.value
  /\ IsTable(getValueAtPath(tree, <<"p">>))

\* The set made the containers that were missing on the way to q.0.z.
C30_MissingReached ==
  /\ treeLast.call = "getValueAtPath"
  /\ treeLast.prev.call = "setValueAtPath"
  /\ treeLast.path = <<"q", "0", "z">>
  /\ treeLast.prev.path = <<"q", "0", "z">>
  /\ getValueAtPath(treeLast.prev.pre, <<"q">>) = Nil
  /\ treeLast.value = Str("c")

\* The last operation of the patch of the last call, and the tree it met:
\* the tree after the operations before it (none of which raised).
LastOperation == treeLast.patch.operations[Len(treeLast.patch.operations)]
TreeBeforeLast ==
  ApplyFrom(treeLast.pre,
            SubSeq(treeLast.patch.operations, 1, Len(treeLast.patch.operations) - 1), 1)

\* C31: a mapSet whose pathToMap resolves to a container makes the value at
\* pathToMap followed by the key the operation's value and leaves every
\* other key of the container as it was.
C31_MapSetSetsOneKey ==
  (/\ treeLast.call = "applyPatch"
   /\ ~TreeBeforeLast.err
   /\ LastOperation.type = "mapSet"
   /\ IsTable(getValueAtPath(TreeBeforeLast.state, LastOperation.pathToMap))) =>
     LET before == getValueAtPath(TreeBeforeLast.state, LastOperation.pathToMap)
         after == getValueAtPath(tree, LastOperation.pathToMap)
     IN  /\ ~treeLast.raised
         /\ getValueAtPath(tree, Append(LastOperation.pathToMap, LastOperation.id))
              = LastOperation.value
         /\ IsTable(after)
         /\ DOMAIN after.f = DOMAIN before.f \cup {LastOperation.id}
         /\ \A k \in (DOMAIN before.f) \ {LastOperation.id} : after.f[k] = before.f[k]

\* mapSet(["p"], "k", 5) on p = { j: 7 }: get(["p", "k"]) is 5 and j is 7.
C31_Witness ==
  /\ treeLast.call = "applyPatch"
  /\ treeLast.pre = MapState
  /\ treeLast.patch.operations = <<OpMapSetK("none")>>
  /\ getValueAtPath(tree, <<"p", "k">>) = Num(5)
  /\ getValueAtPath(tree, <<"p", "j">>) = Num(7)

\* The table is a sequence of length n: its keys are the indices 0 .. n-1.
IsSequence(v, n) == IsTable(v) /\ DOMAIN v.f = {KeyOfIndex(i) : i \in 0..(n - 1)}
Element(v, i) == v.f[KeyOfIndex(i)]

\* C32: on a sequence of length n, listInsert at i in 0..n gives the
\* sequence of length n+1 with the value at i and the elements from i on one
\* place to the right; listRemoveAt at i in 0..n-1 gives the sequence of
\* length n-1 without the element at i, the later ones one place to the
\* left.
C32_ListInsertAndRemoveShift ==
  (/\ treeLast.call = "applyPatch"
   /\ ~TreeBeforeLast.err
   /\ LastOperation.type \in {"listInsert", "listRemoveAt"}) =>
     LET before == getValueAtPath(TreeBeforeLast.state, LastOperation.path)
         after == getValueAtPath(tree, LastOperation.path)
         i == LastOperation.index
     IN  \A n \in 0..MaxIndex :
           IsSequence(before, n) =>
             /\ (LastOperation.type = "listInsert" /\ i <= n) =>
                  /\ ~treeLast.raised
                  /\ IsSequence(after, n + 1)
                  /\ Element(after, i) = LastOperation.value
                  /\ \A j \in 0..(i - 1) : Element(after, j) = Element(before, j)
                  /\ \A j \in i..(n - 1) : Element(after, j + 1) = Element(before, j)
             /\ (LastOperation.type = "listRemoveAt" /\ i < n) =>
                  /\ ~treeLast.raised
                  /\ IsSequence(after, n - 1)
                  /\ \A j \in 0..(i - 1) : Element(after, j) = Element(before, j)
                  /\ \A j \in (i + 1)..(n - 1) : Element(after, j - 1) = Element(before, j)

\* ["a", "b"], insert 0 "sword", removeAt 1: ["sword", "b"].
C32_Witness ==
  /\ treeLast.call = "applyPatch"
  /\ treeLast.pre = InitState
  /\ treeLast.patch.operations =
       <<opListInsert(<<"items">>, 0, Str("sword"), "none"), opListRemoveAt(<<"items">>, 1, "none")>>
  /\ getValueAtPath(TreeBeforeLast.state, <<"items">>) =
       Tbl([k \in {"0", "1", "2"} |->
              IF k = "0" THEN Str("sword") ELSE IF k = "1" THEN Str("a") ELSE Str("b")])
  /\ getValueAtPath(tree, <<"items">>) =
       Tbl([k \in {"0", "1"} |-> IF k = "0" THEN Str("sword") ELSE Str("b")])

\* C33: every send of a patch message is on the one channel that the
\* reliability of the first operation of the batch names (reliable when it
\* has none) and carries all the operations of the batch; every send of a
\* create or destroy message is on the reliable channel.
C33_ChannelOfFirstOperation ==
  (sLast.call \in BroadcastCalls /\ ~sLast.raised) =>
    \A i \in 1..Len(sLast.sent) :
      IF sLast.call \in PatchCalls
        THEN /\ sLast.sent[i].channel = ChannelNamed(sLast.ops[1].reliability)
             /\ Has(sLast.sent[i].message, "patch")
             /\ sLast.sent[i].message.patch.operations = sLast.ops
        ELSE sLast.sent[i].channel = "reliable"

\* A batch whose first operation is unreliable and whose second is
\* reliable, sent whole on the unreliable channel.
C33_Witness ==
  /\ sLast.call = "patchNodeMultiple"
  /\ ~sLast.raised
  /\ Len(sLast.ops) = 2
  /\ sLast.ops[1].reliability = "unreliable"
  /\ sLast.ops[2].reliability = "reliable"
  /\ Len(sLast.sent) > 0
  /\ \A i \in 1..Len(sLast.sent) : sLast.sent[i].channel = "unreliable"

\* A batch with no tag on its first operation and an unreliable second one,
\* sent on the reliable channel.
C33_AbsentTagReached ==
  /\ sLast.call = "patchNodeMultiple"
  /\ ~sLast.raised
  /\ Len(sLast.ops) = 2
  /\ sLast.ops[1].reliability = "none"
  /\ sLast.ops[2].reliability = "unreliable"
  /\ Len(sLast.sent) > 0
  /\ \A i \in 1..Len(sLast.sent) : sLast.sent[i].channel = "reliable"

\* C34: an observer that asked for the initial data while reliable patches
\* were issued to a node in its scope holds, once the response and every
\* broadcast message are delivered and nothing is in flight, the state and
\* the version of the authoritative node.
C34_BootstrapConverges ==
  \A p \in SystemPlayers, id \in NodeIds :
    (/\ p \in connected
     /\ isInitialized[p]
     /\ relQ[p] = <<>>
     /\ resp[p] = NoResp
     /\ sNodes[id] # NoNode) =>
       /\ cNodes[p][id] # NoNode
       /\ cNodes[p][id].state = sNodes[id].state
       /\ cNodes[p][id].version = sNodes[id].version

\* The response, computed before a patch, is received after the patch was
\* handled: the observer has no node when the patch comes, and ends with the
\* node of the response, one version behind, with nothing left in flight.
C34_PatchOvertakesResponse ==
  /\ cLast.call = "receiveInitialData"
  /\ cLast.count = 1
  /\ relQ["A"] = <<>>
  /\ resp["A"] = NoResp
  /\ sNodes["n"] # NoNode
  /\ sNodes["n"].version = 1
  /\ cNodes["A"]["n"] # NoNode
  /\ cNodes["A"]["n"].version = 0

\* The patch of the last call is for a version the node skipped: above the
\* version of its snapshot and below the version a later patch gave it.
SkippedVersion ==
  /\ ObsPatchForNode
  /\ obsSnap.version < obsLast.patch.version
  /\ obsLast.patch.version < obsLast.pre.version

\* C35: a node at version v applies every patch of a version above v, also
\* one above v+1, and takes the version of the patch; a patch for a version
\* it skipped that comes later is rejected and changes nothing.
C35_GapIsAccepted ==
  /\ (ObsPatchForNode /\ obsLast.patch.version > obsLast.pre.version) =>
       obsLast.result = "applied" /\ obs.version = obsLast.patch.version
  /\ SkippedVersion =>
       /\ obsLast.result = "rejected"
       /\ obs.state = obsLast.pre.state
       /\ obs.version = obsLast.pre.version

\* The same for the patches whose operations all go through.
C35_ValidGapIsAccepted ==
  /\ (/\ ObsPatchForNode
      /\ obsLast.patch.version > obsLast.pre.version
      /\ ~applyPatch(obsLast.pre.state, obsLast.patch).err) =>
       obsLast.result = "applied" /\ obs.version = obsLast.patch.version
  /\ SkippedVersion =>
       /\ obsLast.result = "rejected"
       /\ obs.state = obsLast.pre.state
       /\ obs.version = obsLast.pre.version

\* A node made at version 0 got version 2 (set gold to 50) first and then
\* version 1: it is at version 2 with gold 50.
C35_LateSkippedVersionReached ==
  /\ SkippedVersion
  /\ obsSnap.version = 0
  /\ ~obsSnap.applied
  /\ obsLast.pre.version = 2
  /\ obsLast.patch.version = 1
  /\ obsLast.patch.operations = <<OpIncGold("none")>>
  /\ obs.version = 2
  /\ obs.state = setValueAtPath(obsSnap.data, <<"gold">>, Num(50))

\* C36: applySnapshot of a snapshot of the node gives the node the state and
\* the version of the snapshot whatever its version was, lower ones
\* included, calls every path subscription once with (undefined, undefined)
\* and the any-change subscription once, and leaves the subscriptions
\* connected.
C36_SnapshotResetsAndFiresAll ==
  (obsLast.call = "applySnapshot" /\ obsLast.snapshot.tokenId = obsLast.pre.tokenId) =>
    /\ obsLast.result = "applied"
    /\ obs.state = obsLast.snapshot.data
    /\ obs.version = obsLast.snapshot.version
    /\ Len(obsLast.fired.paths) = Cardinality(obsLast.pre.changeSignals)
    /\ \A i \in 1..Len(obsLast.fired.paths) :
         obsLast.fired.paths[i].new = Nil /\ obsLast.fired.paths[i].old = Nil
    /\ obsLast.fired.any = (IF obsLast.pre.anyListener THEN 1 ELSE 0)
    /\ obsLast.fired.raw = 0
    /\ obsLast.pre.changeSignals \subseteq obs.changeSignals
    /\ obsLast.pre.anyListener => obs.anyListener

\* A snapshot of version 0 with another state given to a node at version 2
\* that has two path subscriptions and an any-change subscription.
C36_Witness ==
  /\ obsLast.call = "applySnapshot"
  /\ obsLast.pre.version = 2
  /\ obsLast.snapshot.version = 0
  /\ obsLast.snapshot.data # obsLast.pre.state
  /\ Cardinality(obsLast.pre.changeSignals) = 2
  /\ obsLast.pre.anyListener
  /\ obs.version = 0
  /\ Len(obsLast.fired.paths) = 2
  /\ obsLast.fired.any = 1

\* C37: a patchNode or patchNodeMultiple that does not raise leaves the
\* node's version higher by one for each operation, an operation skipped
\* for the shape of its target and changing nothing included, and
\* broadcasts the patch that carries the new version.
C37_SkippedOperationAdvancesVersion ==
  [][(ServerCallStep /\ sLast'.call \in PatchCalls /\ ~sLast'.raised) =>
       LET id == sLast'.tokenId
           operations == sLast'.ops
       IN  /\ sNodes'[id].version = sNodes[id].version + Len(operations)
           /\ (\A i \in 1..Len(operations) : WrongShape(sNodes[id].state, operations[i])) =>
                sNodes'[id].state = sNodes[id].state
           /\ sLast'.patch.version = sNodes'[id].version
           /\ sLast'.sent = broadcastPatch(sNodes'[id], sLast'.patch, connected)
           /\ \A i \in 1..Len(sLast'.sent) :
                sLast'.sent[i].message.patch.version = sNodes'[id].version]_vars

\* patchNode with an increment of the container p: nothing to increment,
\* the version goes from 0 to 1 and the patch of version 1 is sent.
C37_Witness ==
  /\ sLast.call = "patchNode"
  /\ ~sLast.raised
  /\ sLast.ops = <<OpIncP("none")>>
  /\ sNodes["n"].state = InitState
  /\ sLast.preVersion = 0
  /\ sNodes["n"].version = 1
  /\ Len(sLast.sent) > 0
  /\ sLast.sent[1].message.patch.version = 1

\* The admitted calls of history h among the first k whose time is within
\* windowSeconds before the time of call k (that call included).
AdmittedInWindow(h, k) ==
  {i \in 1..k : h[i].allowed /\ h[i].time > h[k].time - windowSeconds}

\* C38: for each identity, no window of windowSeconds holds more than
\* maxRequests admitted calls; a call is admitted exactly when fewer than
\* maxRequests admitted calls of the same identity fall in the window before
\* it, so denied calls and the calls of other identities do not count; and
\* only admitted calls are recorded.
C38_QuotaPerIdentity ==
  sLast.call = "canRequest" =>
    \A p \in Players :
      LET h == sLast.history[p]
      IN  /\ \A k \in 1..Len(h) :
               /\ Cardinality(AdmittedInWindow(h, k)) <= maxRequests
               /\ h[k].allowed <=>
                    Cardinality({i \in InWindow(h, k) : h[i].allowed}) < maxRequests
          /\ Len(requestTimes[p]) <= maxRequests
          /\ Len(requestTimes[p]) <= Cardinality({i \in 1..Len(h) : h[i].allowed})
          /\ \A j \in 1..Len(requestTimes[p]) :
               \E i \in 1..Len(h) : h[i].allowed /\ h[i].time = requestTimes[p][j]

\* Five calls admitted at one time, a sixth denied later inside the window,
\* a seventh admitted when the window of the first five has passed: the
\* denied call did not count.
C38_Witness ==
  /\ sLast.call = "canRequest"
  /\ \E p \in Players :
       LET h == sLast.history[p]
       IN  /\ Len(h) = 7
           /\ \A i \in 1..5 : h[i].allowed /\ h[i].time = h[1].time
           /\ ~h[6].allowed /\ h[6].time > h[1].time
           /\ h[7].allowed /\ h[7].time = h[1].time + windowSeconds
           /\ requestTimes[p] = <<h[7].time>>

\* One identity is denied and the other admitted at the same time.
C38_OtherIdentityReached ==
  /\ sLast.call = "canRequest"
  /\ Len(sLast.history["A"]) = 6
  /\ ~sLast.history["A"][6].allowed
  /\ Len(sLast.history["B"]) = 1
  /\ sLast.history["B"][1].allowed
  /\ sLast.history["B"][1].time = sLast.history["A"][6].time

\* C39: while the node is registered on the server, no observer node
\* mirroring it, in a client registry or fed from the messages in any order,
\* has a version above the version of the server node.
C39_ObserverNeverAhead ==
  \A id \in NodeIds :
    sNodes[id] # NoNode =>
      /\ \A p \in Players : cNodes[p][id] # NoNode => cNodes[p][id].version <= sNodes[id].version
      /\ obs # NoNode /\ obs.tokenId = id => obs.version <= sNodes[id].version

\* The observer node took a patch and then an older message again: it stands
\* at the version of the server, with a message of a lower version and one
\* of its own version still in flight.
C39_Witness ==
  /\ obs # NoNode /\ sNodes["n"] # NoNode
  /\ obs.version = sNodes["n"].version /\ obs.version >= 2
  /\ \E i \in 1..Len(relQ["A"]) :
       Has(relQ["A"][i], "patch") /\ relQ["A"][i].patch.version <= obs.version

\* The observer node skipped a version: it is at 0 behind a server at 2 or
\* more, the patches in between lost.
C39_LossReached ==
  /\ obs # NoNode /\ sNodes["n"] # NoNode
  /\ obs.version = 0 /\ sNodes["n"].version >= 2 /\ relQ["A"] = <<>>

\* C40: after every waitForNode call and every handled message no id of a
\* client registry has both a node and a pending waiter; a patch message
\* for an id without a node creates no node, and it and a destroy message
\* for such an id leave the registry as it was.
C40_NodeOrWaitersNeverBoth ==
  [][\A p \in SystemPlayers :
       /\ \A id \in TokenIds : ~(cNodes'[p][id] # NoNode /\ nodeWaiters'[p][id] # <<>>)
       /\ (/\ DeliverStep(p)
           /\ ~Has(Head(relQ[p]), "snapshot")
           /\ cNodes[p][Head(relQ[p]).tokenId] = NoNode)
            => /\ cNodes'[p] = cNodes[p]
               /\ nodeWaiters'[p] = nodeWaiters[p]
               /\ resolved'[p] = resolved[p]]_vars

\* A patch message was handled for an id that has no node and a pending
\* waiter: there is still no node and the waiter is still pending.
C40_Witness ==
  /\ cLast.call = "deliver" /\ Has(cLast.message, "patch") /\ ~cLast.held
  /\ cNodes["A"]["n"] = NoNode
  /\ nodeWaiters["A"]["n"] # <<>>

\* A destroy message was handled for an id that has no node.
C40_DestroyOfAbsentReached ==
  /\ cLast.call = "deliver" /\ DOMAIN cLast.message = {"tokenId"} /\ ~cLast.held
  /\ nodeWaiters["A"]["n"] # <<>>

\* waitForNode was called for an id that has a node, after a waiter of the
\* id was resolved by the create message.
C40_WaitOnMaterializedReached ==
  /\ cLast.call = "waitForNode" /\ cLast.held
  /\ \E w \in Waiters : resolved["A"][w] # <<>> /\ resolved["A"][w][1].how = "create"
  /\ \E w \in Waiters : resolved["A"][w] # <<>> /\ resolved["A"][w][1].how = "immediate"

(***************************************************************************)
(* Properties of server, transport and clients together (Spec)             *)
(***************************************************************************)
\* Nothing is in flight to identity p.
Quiescent(p) == relQ[p] = <<>> /\ resp[p] = NoResp

\* C2: whenever nothing is in flight, an observer that was connected and in
\* scope when the node was created and has stayed connected holds the
\* node with the state and version of the authoritative node, the node
\* having been mutated only by successful patchNode / patchNodeMultiple
\* calls with reliable operations.
C2_QuiescentConvergence ==
  \A p \in Players, id \in NodeIds :
    (mirror[p][id] /\ sNodes[id] # NoNode /\ Quiescent(p)) =>
      /\ cNodes[p][id] # NoNode
      /\ cNodes[p][id].state = sNodes[id].state
      /\ cNodes[p][id].version = sNodes[id].version

\* C3: a patch message {tokenId, patch} is dispatched as a patch, never as
\* a create or a destroy.
C3_PatchDispatchedAsPatch ==
  (cLast.call = "deliver" /\ Has(cLast.message, "patch")) => cLast.dispatch = "patch"

====
